---- MODULE Spec2Model ----
(***************************************************************************)
(* Model of the deep_research repository: the cost ledger                  *)
(* (cost_tracker.CostTracker), the enhanced MCP research loop              *)
(* (research_agent_mcp_enhanced) and the wrapper and web block that run it *)
(* (main.run_enhanced_mcp_research, web_app research execution block).     *)
(*                                                                         *)
(* Texts are sequences of words; a phrase occurs in a text when its words  *)
(* occur contiguously in it.  Optional values (None in the source) are     *)
(* sequences of length 0 or 1.                                             *)
(***************************************************************************)
EXTENDS Integers, Sequences, FiniteSets, TLC

VARIABLES
    current_session,      \* CostTracker.current_session: <<>> (None) or <<session>>
    session_history,      \* CostTracker.session_history
    clock,                \* the wall clock read by time.time() / datetime.now()
    next_uid,             \* identity of the next CostSession object constructed
    ret,                  \* what the last ledger call returned (or raised)
    ops,                  \* ledger calls made so far by the ledger's driver
    script,               \* the scripted reasoning model
    pc,                   \* position of the research execution
    researcher_messages,  \* ResearcherState["researcher_messages"]
    compressed_research,  \* ResearcherOutputState["compressed_research"]: <<>> or <<text>>
    result,               \* value returned by run_enhanced_mcp_research: <<>> or <<text>>
    exc,                  \* exception in flight or propagated: <<>> or <<class>>
    model_invocations,    \* completed or raised calls of enhanced_model_with_tools.ainvoke
    tool_visits,          \* times the tool-execution branch of the agent node ran
    tool_runs,            \* tool.ainvoke calls made
    compress_invocations, \* calls of compression_model.ainvoke
    enhanced_client,      \* module global _enhanced_client: <<>> (None) or <<client>>
    tool_fetches,         \* calls of client.get_tools() in this run of the loop
    chatbot,              \* the global ClarificationChatbot: its four attributes
    fn_call,              \* the function called on its own and its arguments: <<>> or <<call>>
    fn_out                \* what that call returned or raised: <<>> or <<outcome>>

ledger == <<current_session, session_history, clock, next_uid, ret, ops>>
loop == <<script, pc, researcher_messages, compressed_research, result, exc,
          model_invocations, tool_visits, tool_runs, compress_invocations,
          enhanced_client, tool_fetches>>
functions == <<fn_call, fn_out>>
vars == <<current_session, session_history, clock, next_uid, ret, ops,
          script, pc, researcher_messages, compressed_research, result, exc,
          model_invocations, tool_visits, tool_runs, compress_invocations,
          enhanced_client, tool_fetches, chatbot,
          fn_call, fn_out>>

----------------------------------------------------------------------------
(* Bounds of the model *)

MaxCalls == 2        \* tool calls requested by one assistant response
MaxOps == 6          \* ledger calls and clock ticks in one behaviour of LedgerSpec
MaxTranscript == 14  \* the agent node is not run on a longer transcript
MaxHits == 3         \* hits in one answer of the search provider
MaxBatches == 2      \* responses in one call of deduplicate_search_results
MaxBatchLen == 2     \* results in one of those responses
MaxChats == 3        \* chat() calls on one conversation before a reset

(* Program constants *)

TurnCap == 10        \* len(messages) >= 10
SecondsPerDay == 86400        \* one calendar day of the wall clock, in seconds
SearchEstimateRate == 500000  \* searches * 0.005, in units of 1e-8 USD

----------------------------------------------------------------------------
(* Texts *)

LowerWord(w) ==
    CASE w = "Research" -> "research"
      [] w = "Complete" -> "complete"
      [] w = "Analysis" -> "analysis"
      [] w = "Peer-Reviewed" -> "peer-reviewed"
      [] w = "NATURE.COM" -> "nature.com"
      [] w = "EV" -> "ev"
      [] w = "Great!" -> "great!"
      [] w = "Brief:" -> "brief:"
      [] w = "What" -> "what"
      [] w = "Here's" -> "here's"
      [] w = "Could" -> "could"
      [] w = "Please" -> "please"
      [] w = "Clarification" -> "clarification"
      [] w = "Needed" -> "needed"
      [] w = "No" -> "no"
      [] w = "I" -> "i"
      [] w = "Invalid" -> "invalid"
      [] w = "Connection" -> "connection"
      [] OTHER -> w

\* str.lower()
lower(text) == [i \in 1..Len(text) |-> LowerWord(text[i])]

\* phrase in text
Contains(text, phrase) ==
    \E i \in 1..(Len(text) - Len(phrase) + 1) :
        SubSeq(text, i, i + Len(phrase) - 1) = phrase

CompletionPhrases ==
    { <<"research", "complete">>,
      <<"analysis", "finished">>,
      <<"investigation", "concluded">>,
      <<"no", "more", "information", "needed">>,
      <<"comprehensive", "overview", "provided">> }

NoResultsSentinel == <<"No", "research", "results", "found">>
UnavailableText == <<"Enhanced", "MCP", "research", "not", "available.">>

----------------------------------------------------------------------------
(* Cost ledger: cost_tracker.py *)

\* USD per 1K tokens, in units of 1e-5 USD
MODEL_PRICING ==
    [ m \in { "openai:gpt-4o-mini", "openai:gpt-4o", "openai:gpt-4.1",
              "openai:gpt-4.1-mini", "anthropic:claude-sonnet-4-20250514",
              "anthropic:claude-haiku-4", "tavily:search" } |->
        CASE m = "openai:gpt-4o-mini" -> [input |-> 15, output |-> 60]
          [] m = "openai:gpt-4o" -> [input |-> 250, output |-> 1000]
          [] m = "openai:gpt-4.1" -> [input |-> 3000, output |-> 6000]
          [] m = "openai:gpt-4.1-mini" -> [input |-> 150, output |-> 600]
          [] m = "anthropic:claude-sonnet-4-20250514" -> [input |-> 300, output |-> 1500]
          [] m = "anthropic:claude-haiku-4" -> [input |-> 80, output |-> 400]
          [] m = "tavily:search" -> [per_search |-> 500] ]

DefaultPricing == [input |-> 100, output |-> 200]

\* MODEL_PRICING.get(model_name, {"input": 0.001, "output": 0.002})
PricingOf(model_name) ==
    IF model_name \in DOMAIN MODEL_PRICING THEN MODEL_PRICING[model_name]
    ELSE DefaultPricing

\* pricing["input"] / pricing["output"] raise KeyError on an entry without them
CostRaises(model_name) ==
    ~ ({"input", "output"} \subseteq DOMAIN PricingOf(model_name))

\* cost in units of 1e-8 USD: (tokens / 1000) * rate
calculate_cost(model_name, input_tokens, output_tokens) ==
    input_tokens * PricingOf(model_name).input
        + output_tokens * PricingOf(model_name).output

ModelUsage(model_name, input_tokens, output_tokens, cost_usd, timestamp, operation) ==
    [ model_name |-> model_name, input_tokens |-> input_tokens,
      output_tokens |-> output_tokens, cost_usd |-> cost_usd,
      timestamp |-> timestamp, operation |-> operation ]

CostSession(uid, session_id, research_mode, query, start_time) ==
    [ uid |-> uid, session_id |-> session_id, research_mode |-> research_mode,
      query |-> query, start_time |-> start_time, end_time |-> <<>>,
      model_calls |-> <<>> ]

\* the last ledger call: its outcome and, where recorded, its arguments
Returned(kind, id, session, usage) ==
    [ kind |-> kind, id |-> id, session |-> session, usage |-> usage,
      args |-> <<>>, summary |-> <<>> ]

\* a call that returns a dictionary: <<dictionary>>, or <<>> for None
ReturnedSummary(kind, args, summary) ==
    [ Returned(kind, 0, <<>>, <<>>) EXCEPT !.args = args, !.summary = summary ]

NoReturn == Returned("none", 0, <<>>, <<>>)

\* start_session that keeps a session that is already open
start_session_keeps_open(research_mode, query) ==
    /\ IF current_session # <<>>
       THEN /\ ret' = [ Returned("session_id", current_session[1].session_id, <<>>, <<>>)
                        EXCEPT !.args = <<research_mode, query>> ]
            /\ UNCHANGED <<current_session, next_uid>>
       ELSE /\ current_session' =
                   << CostSession(next_uid, clock, research_mode, query, clock) >>
            /\ next_uid' = next_uid + 1
            /\ ret' = [ Returned("session_id", clock, <<>>, <<>>)
                        EXCEPT !.args = <<research_mode, query>> ]
    /\ UNCHANGED <<session_history, clock>>

\* CostTracker.start_session
start_session(research_mode, query) ==
    /\ current_session' =
           << CostSession(next_uid, clock, research_mode, query, clock) >>
    /\ next_uid' = next_uid + 1
    /\ ret' = [ Returned("session_id", clock, <<>>, <<>>)
                 EXCEPT !.args = <<research_mode, query>> ]
    /\ UNCHANGED <<session_history, clock>>

\* end_session without `self.current_session = None`
end_session_keeps_slot ==
    /\ IF current_session # <<>>
       THEN LET completed_session ==
                    [current_session[1] EXCEPT !.end_time = <<clock>>]
            IN  /\ session_history' = Append(session_history, completed_session)
                /\ current_session' = <<completed_session>>
                /\ ret' = Returned("session", 0, <<completed_session>>, <<>>)
       ELSE /\ ret' = Returned("None", 0, <<>>, <<>>)
            /\ UNCHANGED <<current_session, session_history>>
    /\ UNCHANGED <<clock, next_uid>>

\* end_session with `self.session_history.insert(0, completed_session)`
end_session_archives_first ==
    /\ IF current_session # <<>>
       THEN LET completed_session ==
                    [current_session[1] EXCEPT !.end_time = <<clock>>]
            IN  /\ session_history' = <<completed_session>> \o session_history
                /\ current_session' = <<>>
                /\ ret' = Returned("session", 0, <<completed_session>>, <<>>)
       ELSE /\ ret' = Returned("None", 0, <<>>, <<>>)
            /\ UNCHANGED <<current_session, session_history>>
    /\ UNCHANGED <<clock, next_uid>>

\* CostTracker.end_session
end_session ==
    /\ IF current_session # <<>>
       THEN LET completed_session ==
                    [current_session[1] EXCEPT !.end_time = <<clock>>]
            IN  /\ session_history' = Append(session_history, completed_session)
                /\ current_session' = <<>>
                /\ ret' = Returned("session", 0, <<completed_session>>, <<>>)
       ELSE /\ ret' = Returned("None", 0, <<>>, <<>>)
            /\ UNCHANGED <<current_session, session_history>>
    /\ UNCHANGED <<clock, next_uid>>

\* the session slot after self.current_session.model_calls.append(usage)
Tracked(usage) ==
    IF current_session # <<>>
    THEN << [current_session[1] EXCEPT !.model_calls = Append(@, usage)] >>
    ELSE current_session

\* CostTracker.track_model_call
track_model_call(model_name, input_tokens, output_tokens, operation) ==
    /\ IF CostRaises(model_name)
       THEN /\ ret' = Returned("KeyError", 0, <<>>, <<>>)
            /\ UNCHANGED current_session
       ELSE LET usage == ModelUsage(model_name, input_tokens, output_tokens,
                             calculate_cost(model_name, input_tokens, output_tokens),
                             clock, operation)
            IN  /\ current_session' = Tracked(usage)
                /\ ret' = Returned("usage", 0, <<>>, <<usage>>)
    /\ UNCHANGED <<session_history, clock, next_uid>>

\* CostTracker.track_tavily_search
track_tavily_search(num_searches) ==
    /\ LET cost_per_search == MODEL_PRICING["tavily:search"].per_search
           usage == ModelUsage("tavily:search", 0, 0,
                               cost_per_search * 1000 * num_searches,
                               clock, "web_search")
       IN  /\ current_session' = Tracked(usage)
           /\ ret' = Returned("usage", 0, <<>>, <<usage>>)
    /\ UNCHANGED <<session_history, clock, next_uid>>

\* time passes between two calls
Tick ==
    /\ clock' = clock + 1
    /\ UNCHANGED <<current_session, session_history, next_uid, ret>>

\* datetime.now().date() / start_time.date(): the clock counts seconds
date(t) == t \div SecondsPerDay

\* the wall clock reaches the first second of the next day
Midnight ==
    /\ clock' = (date(clock) + 1) * SecondsPerDay
    /\ UNCHANGED <<current_session, session_history, next_uid, ret>>

\* sum(...) over a list of numbers
RECURSIVE Sum(_)
Sum(numbers) ==
    IF numbers = <<>> THEN 0 ELSE Head(numbers) + Sum(Tail(numbers))

\* CostSession.total_input_tokens
total_input_tokens(session) ==
    Sum([ i \in 1..Len(session.model_calls) |-> session.model_calls[i].input_tokens ])

\* CostSession.total_output_tokens
total_output_tokens(session) ==
    Sum([ i \in 1..Len(session.model_calls) |-> session.model_calls[i].output_tokens ])

\* CostSession.total_cost_usd
total_cost_usd(session) ==
    Sum([ i \in 1..Len(session.model_calls) |-> session.model_calls[i].cost_usd ])

\* CostSession.duration_seconds
duration_seconds(session) ==
    IF session.end_time # <<>> THEN session.end_time[1] - session.start_time
    ELSE clock - session.start_time

\* the table `estimates` of estimate_research_cost
estimates ==
    [ m \in { "Basic Research", "MCP Research", "Enhanced MCP Research",
              "Full Research" } |->
        CASE m = "Basic Research" ->
                 [ searches |-> 2, search_calls |-> 3, summarization_calls |-> 4,
                   compression_calls |-> 1, input_tokens_per_call |-> 1500,
                   output_tokens_per_call |-> 800 ]
          [] m = "MCP Research" ->
                 [ searches |-> 0, search_calls |-> 2, summarization_calls |-> 3,
                   compression_calls |-> 1, input_tokens_per_call |-> 2000,
                   output_tokens_per_call |-> 1000 ]
          [] m = "Enhanced MCP Research" ->
                 [ searches |-> 1, search_calls |-> 4, summarization_calls |-> 6,
                   compression_calls |-> 1, input_tokens_per_call |-> 2500,
                   output_tokens_per_call |-> 1200 ]
          [] m = "Full Research" ->
                 [ searches |-> 3, search_calls |-> 6, summarization_calls |-> 8,
                   compression_calls |-> 2, input_tokens_per_call |-> 3000,
                   output_tokens_per_call |-> 1500 ] ]

\* the dictionary estimate_research_cost returns; money in units of 1e-8 USD
Estimate(research_mode, query_length) ==
    LET mode_estimate ==
            IF research_mode \in DOMAIN estimates THEN estimates[research_mode]
            ELSE estimates["Basic Research"]
        total_llm_calls ==
            mode_estimate.search_calls + mode_estimate.summarization_calls
                + mode_estimate.compression_calls
        model_cost ==
            IF research_mode = "Basic Research"
            THEN calculate_cost("openai:gpt-4o-mini",
                     total_llm_calls * mode_estimate.input_tokens_per_call,
                     total_llm_calls * mode_estimate.output_tokens_per_call)
            ELSE calculate_cost("anthropic:claude-sonnet-4-20250514",
                     total_llm_calls * mode_estimate.input_tokens_per_call,
                     total_llm_calls * mode_estimate.output_tokens_per_call)
        search_cost == mode_estimate.searches * SearchEstimateRate
    IN  [ estimated_total_usd |-> model_cost + search_cost,
          estimated_input_tokens |->
              total_llm_calls * mode_estimate.input_tokens_per_call,
          estimated_output_tokens |->
              total_llm_calls * mode_estimate.output_tokens_per_call,
          estimated_searches |-> mode_estimate.searches,
          model_cost_usd |-> model_cost,
          search_cost_usd |-> search_cost ]

\* CostTracker.estimate_research_cost
estimate_research_cost(research_mode, query_length) ==
    /\ ret' = ReturnedSummary("estimate", <<research_mode, query_length>>,
                  <<Estimate(research_mode, query_length)>>)
    /\ UNCHANGED <<current_session, session_history, clock, next_uid>>

\* query[:100] + "..." if len(query) > 100 else query, lengths in words
Shortened(query) ==
    IF Len(query) > 100 THEN SubSeq(query, 1, 100) \o <<"...">> ELSE query

\* the dictionary get_session_summary returns for the open session
SessionSummary(session) ==
    [ session_id |-> session.session_id,
      research_mode |-> session.research_mode,
      query |-> Shortened(session.query),
      duration_seconds |-> duration_seconds(session),
      total_input_tokens |-> total_input_tokens(session),
      total_output_tokens |-> total_output_tokens(session),
      total_cost_usd |-> total_cost_usd(session),
      model_calls_count |-> Len(session.model_calls),
      cost_breakdown |->
          [ i \in 1..Len(session.model_calls) |->
              [ model |-> session.model_calls[i].model_name,
                operation |-> session.model_calls[i].operation,
                input_tokens |-> session.model_calls[i].input_tokens,
                output_tokens |-> session.model_calls[i].output_tokens,
                cost_usd |-> session.model_calls[i].cost_usd ] ] ]

\* CostTracker.get_session_summary
get_session_summary ==
    /\ ret' = ReturnedSummary("session_summary", <<>>,
                  IF current_session = <<>> THEN <<>>
                  ELSE <<SessionSummary(current_session[1])>>)
    /\ UNCHANGED <<current_session, session_history, clock, next_uid>>

\* today's sessions with the open session counted among them
today_sessions_with_open(today) ==
    LET StartedToday(session) == date(session.start_time) = today
    IN  SelectSeq(session_history \o current_session, StartedToday)

\* the sessions of session_history, whatever their start date
today_sessions_of_every_day(today) == session_history

\* [session for session in self.session_history if session.start_time.date() == today]
today_sessions(today) ==
    LET StartedToday(session) == date(session.start_time) = today
    IN  SelectSeq(session_history, StartedToday)

\* CostTracker._get_mode_breakdown
get_mode_breakdown(sessions) ==
    [ mode \in { sessions[i].research_mode : i \in 1..Len(sessions) } |->
        LET IsMode(session) == session.research_mode = mode
            of_mode == SelectSeq(sessions, IsMode)
        IN  [ sessions |-> Len(of_mode),
              total_cost |->
                  Sum([ i \in 1..Len(of_mode) |-> total_cost_usd(of_mode[i]) ]),
              total_tokens |->
                  Sum([ i \in 1..Len(of_mode) |->
                          total_input_tokens(of_mode[i])
                              + total_output_tokens(of_mode[i]) ]) ] ]

\* the dictionary get_daily_summary returns; the average is kept as the exact
\* fraction num / den
DailySummary ==
    LET sessions == today_sessions(date(clock))
        costs == [ i \in 1..Len(sessions) |-> total_cost_usd(sessions[i]) ]
    IN  IF sessions = <<>>
        THEN [ total_cost_usd |-> 0, total_sessions |-> 0, total_tokens |-> 0 ]
        ELSE [ total_cost_usd |-> Sum(costs),
               total_input_tokens |->
                   Sum([ i \in 1..Len(sessions) |-> total_input_tokens(sessions[i]) ]),
               total_output_tokens |->
                   Sum([ i \in 1..Len(sessions) |-> total_output_tokens(sessions[i]) ]),
               total_sessions |-> Len(sessions),
               average_cost_per_session |->
                   [ num |-> Sum(costs), den |-> Len(sessions) ],
               mode_breakdown |-> get_mode_breakdown(sessions) ]

\* get_daily_summary with `self.session_history.clear()` added
get_daily_summary_clearing ==
    /\ ret' = ReturnedSummary("daily_summary", <<>>, <<DailySummary>>)
    /\ session_history' = <<>>
    /\ UNCHANGED <<current_session, clock, next_uid>>

\* CostTracker.get_daily_summary
get_daily_summary ==
    /\ ret' = ReturnedSummary("daily_summary", <<>>, <<DailySummary>>)
    /\ UNCHANGED <<current_session, session_history, clock, next_uid>>

----------------------------------------------------------------------------
(* Messages and the scripted reasoning model *)

NoId == <<>>

HumanMessage(content) ==
    [ type |-> "human", content |-> content, tool_calls |-> <<>>,
      tool_call_id |-> NoId, name |-> "" ]

AIMessage(content, tool_calls) ==
    [ type |-> "ai", content |-> content, tool_calls |-> tool_calls,
      tool_call_id |-> NoId, name |-> "" ]

ToolMessage(content, tool_call_id, name) ==
    [ type |-> "tool", content |-> content, tool_calls |-> <<>>,
      tool_call_id |-> tool_call_id, name |-> name ]

Query == <<"EV", "market">>

AIContents == { <<"Still", "working">>, <<"Research", "Complete">> }

\* the tool requests a response can carry (name and arguments)
CallSpecs ==
    { [name |-> "think_tool", args |-> "plan"],
      [name |-> "search_files", args |-> "analysis"],
      [name |-> "search_files", args |-> "/outside"],
      [name |-> "nonexistent_tool", args |-> "x"] }

CallSeqs == UNION { [1..n -> CallSpecs] : n \in 0..MaxCalls }

\* what enhanced_model_with_tools.ainvoke can raise (API, network, rate limit)
ModelErrors == { "RuntimeError" }

\* what the compression step can raise: init_chat_model imports the provider
\* package when called (ImportError); compression_model.ainvoke fails as above
CompressionErrors == { "ImportError", "RuntimeError" }

\* what one invocation of the reasoning model does: answer, or raise
Responses ==
    { [kind |-> "ok", content |-> c, tool_calls |-> cs] :
          c \in AIContents, cs \in CallSeqs }
    \cup { [kind |-> k, content |-> <<>>, tool_calls |-> <<>>] :
          k \in ModelErrors }

\* a scripted model: its first answer, and its answer to every later invocation
Scripts == [ first : Responses, then : Responses ]

ModelResponse(n) == IF n = 1 THEN script.first ELSE script.then

\* the calls of the n-th response, each with the identifier the model gave it
WithIds(n, calls) ==
    [ i \in 1..Len(calls) |->
        [name |-> calls[i].name, args |-> calls[i].args, id |-> <<n, i>>] ]

----------------------------------------------------------------------------
(* Tools: research_agent_mcp_enhanced.py 121-131, utils.think_tool *)

\* await client.get_tools(): the tools the MCP servers offer
mcp_tools == { "search_files" }

\* all_tools = mcp_tools + [think_tool]; tools_by_name
tools_by_name == mcp_tools \cup { "think_tool" }

\* tool.ainvoke(tool_args) raises
ToolRaises(name, args) == name = "search_files" /\ args = "/outside"

\* str(e) of that exception
ToolErrorText(name, args) == <<"Access", "denied">>

\* str(await tool.ainvoke(tool_args))
ToolResult(name, args) ==
    IF name = "think_tool" THEN <<"Reflection", "recorded:", args>>
    ELSE <<"Analysis", "finished">>

\* one iteration of `for tool_call in response.tool_calls`
ExecuteToolCall(tool_call) ==
    IF tool_call.name \in tools_by_name
    THEN IF ToolRaises(tool_call.name, tool_call.args)
         THEN ToolMessage(<<"Tool", "execution", "error:">>
                              \o ToolErrorText(tool_call.name, tool_call.args),
                          tool_call.id, tool_call.name)
         ELSE ToolMessage(ToolResult(tool_call.name, tool_call.args),
                          tool_call.id, tool_call.name)
    ELSE ToolMessage(<<"Unknown", "tool:", tool_call.name>>,
                     tool_call.id, tool_call.name)

\* tool_messages built by inserting each result at the front
ExecuteToolCalls_reversed(tool_calls) ==
    [ i \in 1..Len(tool_calls) |->
        ExecuteToolCall(tool_calls[Len(tool_calls) + 1 - i]) ]

\* the for loop left at the first unknown or raising tool
ExecuteToolCalls_stop_at_failure(tool_calls) ==
    LET failed(i) == \/ tool_calls[i].name \notin tools_by_name
                     \/ ToolRaises(tool_calls[i].name, tool_calls[i].args)
        done == { i \in 1..Len(tool_calls) : \A j \in 1..(i - 1) : ~ failed(j) }
    IN  [ i \in 1..Cardinality(done) |-> ExecuteToolCall(tool_calls[i]) ]

\* tool_messages after the for loop
ExecuteToolCalls(tool_calls) ==
    [ i \in 1..Len(tool_calls) |-> ExecuteToolCall(tool_calls[i]) ]

\* how many of the calls reached tool.ainvoke
Invoked(tool_calls) ==
    Cardinality({ i \in 1..Len(tool_calls) : tool_calls[i].name \in tools_by_name })

----------------------------------------------------------------------------
(* The enhanced research graph: research_agent_mcp_enhanced.py *)

HasCompletionPhrase(content) ==
    \E phrase \in CompletionPhrases : Contains(lower(content), phrase)

\* the turn cap tested with == instead of >=
should_continue_cap_equality(messages) ==
    IF Len(messages) = TurnCap
    THEN "enhanced_compress_research"
    ELSE IF /\ messages # <<>>
            /\ messages[Len(messages)].content # <<>>
            /\ HasCompletionPhrase(messages[Len(messages)].content)
         THEN "enhanced_compress_research"
         ELSE "enhanced_researcher_agent"

should_continue_enhanced_research(messages) ==
    IF Len(messages) >= TurnCap
    THEN "enhanced_compress_research"
    ELSE IF /\ messages # <<>>
            /\ messages[Len(messages)].content # <<>>
            /\ HasCompletionPhrase(messages[Len(messages)].content)
         THEN "enhanced_compress_research"
         ELSE "enhanced_researcher_agent"

\* the update with the tool messages put before the response
AgentUpdate_tools_first(n, response) ==
    LET tool_calls == WithIds(n, response.tool_calls)
    IN  ExecuteToolCalls(tool_calls) \o <<AIMessage(response.content, tool_calls)>>

\* the update the node enhanced_researcher_agent returns for a response
AgentUpdate(n, response) ==
    LET tool_calls == WithIds(n, response.tool_calls)
    IN  <<AIMessage(response.content, tool_calls)>> \o ExecuteToolCalls(tool_calls)

\* os.getenv("DC_API_KEY") is set or not; the research executions of this
\* model run in an environment without the key
DcApiKeySettings == { FALSE }

\* get_enhanced_mcp_client: the global client, made on the first call from
\* the servers the environment's DC_API_KEY allows
get_enhanced_mcp_client(dc_api_key) ==
    IF enhanced_client = <<>>
    THEN << [ servers |-> IF dc_api_key THEN { "filesystem", "datacommons" }
                          ELSE { "filesystem" } ] >>
    ELSE enhanced_client

\* node enhanced_researcher_agent, then the conditional edge out of it
enhanced_researcher_agent ==
    /\ pc = "enhanced_researcher_agent"
    /\ Len(researcher_messages) < MaxTranscript
    /\ \E dc_api_key \in DcApiKeySettings :
           enhanced_client' = get_enhanced_mcp_client(dc_api_key)
    /\ tool_fetches' = tool_fetches + 1
    /\ model_invocations' = model_invocations + 1
    /\ IF ModelResponse(model_invocations + 1).kind # "ok"
       THEN /\ exc' = <<ModelResponse(model_invocations + 1).kind>>
            /\ pc' = "raised"
            /\ UNCHANGED <<researcher_messages, tool_visits, tool_runs>>
       ELSE /\ researcher_messages' = researcher_messages
                    \o AgentUpdate(model_invocations + 1, ModelResponse(model_invocations + 1))
            /\ tool_visits' = IF ModelResponse(model_invocations + 1).tool_calls # <<>>
                              THEN tool_visits + 1 ELSE tool_visits
            /\ tool_runs' = tool_runs + Invoked(ModelResponse(model_invocations + 1).tool_calls)
            /\ pc' = should_continue_enhanced_research(researcher_messages')
            /\ UNCHANGED exc
    /\ UNCHANGED <<compressed_research, result, compress_invocations, script>>
    /\ UNCHANGED ledger
    /\ UNCHANGED functions
    /\ UNCHANGED chatbot

CompressionTexts == { <<"Synthesis">>, <<>> }

\* node enhanced_compress_research, then the edge to END
enhanced_compress_research ==
    /\ pc = "enhanced_compress_research"
    /\ compress_invocations' = compress_invocations + 1
    /\ \/ \E text \in CompressionTexts :
            /\ compressed_research' = <<text>>
            /\ pc' = "END"
            /\ UNCHANGED exc
       \/ \E k \in CompressionErrors :
            /\ exc' = <<k>>
            /\ pc' = "raised"
            /\ UNCHANGED compressed_research
    /\ UNCHANGED <<researcher_messages, result, model_invocations, tool_visits,
                   tool_runs, script, enhanced_client, tool_fetches>>
    /\ UNCHANGED ledger
    /\ UNCHANGED functions
    /\ UNCHANGED chatbot

----------------------------------------------------------------------------
(* main.run_enhanced_mcp_research and the web_app block that calls it *)

\* web_app: cost_tracker.start_session(mode, research_query)
web_start_session ==
    /\ pc = "idle"
    /\ start_session("Enhanced MCP Research", Query)
    /\ pc' = "started"
    /\ UNCHANGED <<script, researcher_messages, compressed_research, result, exc,
                   model_invocations, tool_visits, tool_runs, compress_invocations,
                   enhanced_client, tool_fetches, ops>>
    /\ UNCHANGED functions
    /\ UNCHANGED chatbot

\* run_enhanced_mcp_research: the import, then agent_mcp_enhanced.ainvoke(...)
run_enhanced_mcp_research ==
    /\ pc = "started"
    /\ \/ /\ researcher_messages' = <<HumanMessage(Query)>>
          /\ pc' = "enhanced_researcher_agent"
          /\ UNCHANGED exc
       \/ /\ exc' = <<"ImportError">>
          /\ pc' = "raised"
          /\ UNCHANGED researcher_messages
    /\ UNCHANGED <<script, compressed_research, result, model_invocations,
                   tool_visits, tool_runs, compress_invocations,
          enhanced_client, tool_fetches>>
    /\ UNCHANGED ledger
    /\ UNCHANGED functions
    /\ UNCHANGED chatbot

\* return result.get('compressed_research') or 'No research results found'
return_result_or_sentinel ==
    /\ pc = "END"
    /\ result' = IF compressed_research # <<>> /\ compressed_research[1] # <<>>
                 THEN compressed_research
                 ELSE <<NoResultsSentinel>>
    /\ pc' = "returned"
    /\ UNCHANGED <<script, researcher_messages, compressed_research, exc,
                   model_invocations, tool_visits, tool_runs, compress_invocations,
          enhanced_client, tool_fetches>>
    /\ UNCHANGED ledger
    /\ UNCHANGED functions
    /\ UNCHANGED chatbot

\* return result.get('compressed_research', 'No research results found')
return_result ==
    /\ pc = "END"
    /\ result' = IF compressed_research # <<>> THEN compressed_research
                 ELSE <<NoResultsSentinel>>
    /\ pc' = "returned"
    /\ UNCHANGED <<script, researcher_messages, compressed_research, exc,
                   model_invocations, tool_visits, tool_runs, compress_invocations,
          enhanced_client, tool_fetches>>
    /\ UNCHANGED ledger
    /\ UNCHANGED functions
    /\ UNCHANGED chatbot

\* except ImportError as e: return "..."; any other exception leaves the wrapper
\* and reaches the web_app block's except clause
handle_exception ==
    /\ pc = "raised"
    /\ IF exc = <<"ImportError">>
       THEN /\ result' = <<UnavailableText>>
            /\ pc' = "returned"
       ELSE /\ pc' = "failed"
            /\ UNCHANGED result
    /\ UNCHANGED <<script, researcher_messages, compressed_research, exc,
                   model_invocations, tool_visits, tool_runs, compress_invocations,
          enhanced_client, tool_fetches>>
    /\ UNCHANGED ledger
    /\ UNCHANGED functions
    /\ UNCHANGED chatbot

\* web_app: cost_session = cost_tracker.end_session()
web_end_session ==
    /\ pc = "returned"
    /\ end_session
    /\ pc' = "done"
    /\ UNCHANGED <<script, researcher_messages, compressed_research, result, exc,
                   model_invocations, tool_visits, tool_runs, compress_invocations,
                   enhanced_client, tool_fetches, ops>>
    /\ UNCHANGED functions
    /\ UNCHANGED chatbot

----------------------------------------------------------------------------
(* Specifications *)

InitLedger ==
    /\ current_session = <<>>
    /\ session_history = <<>>
    /\ clock = 0
    /\ next_uid = 0
    /\ ret = NoReturn
    /\ ops = 0

\* ClarificationChatbot.__init__
InitChatbot ==
    chatbot = [ model |-> <<>>, conversation_history |-> <<>>,
                research_brief |-> <<>>, is_ready_for_research |-> FALSE ]

InitFunctions ==
    /\ fn_call = <<>>
    /\ fn_out = <<>>

InitLoop ==
    /\ pc = "idle"
    /\ researcher_messages = <<>>
    /\ compressed_research = <<>>
    /\ result = <<>>
    /\ exc = <<>>
    /\ model_invocations = 0
    /\ tool_visits = 0
    /\ tool_runs = 0
    /\ enhanced_client = <<>>
    /\ tool_fetches = 0
    /\ compress_invocations = 0

\* one research execution of the web application, for every scripted model
Init ==
    /\ InitLedger
    /\ InitLoop
    /\ InitChatbot
    /\ InitFunctions
    /\ script \in Scripts

Next ==
    \/ web_start_session
    \/ run_enhanced_mcp_research
    \/ enhanced_researcher_agent
    \/ enhanced_compress_research
    \/ return_result
    \/ handle_exception
    \/ web_end_session

Spec == Init /\ [][Next]_vars

\* asyncio.run drives the graph until it returns or raises
FairSpec == Init /\ [][Next]_vars /\ WF_vars(Next)

ResearchModes == { "Basic Research", "Enhanced MCP Research" }

ModelNames == { "anthropic:claude-sonnet-4-20250514", "tavily:search", "local:unknown" }

IdleResponse == [kind |-> "ok", content |-> <<>>, tool_calls |-> <<>>]

\* the ledger driven by any sequence of calls
LedgerInit ==
    /\ InitLedger
    /\ InitLoop
    /\ InitChatbot
    /\ InitFunctions
    /\ script = [ first |-> IdleResponse, then |-> IdleResponse ]

\* one more call by the driver
Driver ==
    /\ ops < MaxOps
    /\ ops' = ops + 1
    /\ UNCHANGED loop
    /\ UNCHANGED functions
    /\ UNCHANGED chatbot

LedgerNext ==
    \/ \E mode \in ResearchModes : start_session(mode, Query) /\ Driver
    \/ end_session /\ Driver
    \/ \E m \in ModelNames : track_model_call(m, 1000, 500, "model_invoke") /\ Driver
    \/ track_tavily_search(1) /\ Driver
    \/ Tick /\ Driver

LedgerSpec == LedgerInit /\ [][LedgerNext]_vars

EstimateModes ==
    { "Basic Research", "Enhanced MCP Research", "Full Research", "Quick Research" }

\* the ledger driven by any sequence of calls, the queries among them
QueryNext ==
    \/ \E mode \in ResearchModes : start_session(mode, Query) /\ Driver
    \/ end_session /\ Driver
    \/ \E m \in ModelNames : track_model_call(m, 1000, 500, "model_invoke") /\ Driver
    \/ track_tavily_search(1) /\ Driver
    \/ Tick /\ Driver
    \/ Midnight /\ Driver
    \/ \E mode \in EstimateModes : estimate_research_cost(mode, Len(Query)) /\ Driver
    \/ get_session_summary /\ Driver
    \/ get_daily_summary /\ Driver

QuerySpec == LedgerInit /\ [][QueryNext]_vars

----------------------------------------------------------------------------
(* calculate_cost applied on its own *)

TokenCounts == { 0, 1, 999, 1000, 2500 }

ModelIdentifiers == DOMAIN MODEL_PRICING \cup { "local:unknown" }

CostCalls ==
    [ fn : { "calculate_cost" }, model_name : ModelIdentifiers,
      input_tokens : TokenCounts, output_tokens : TokenCounts ]

\* returned value, or the exception that left the function
FnReturned(value) == [ kind |-> "returned", value |-> value ]
FnRaised(exception) == [ kind |-> exception, value |-> <<>> ]

PricingInit ==
    /\ InitLedger
    /\ InitLoop
    /\ InitChatbot
    /\ script = [ first |-> IdleResponse, then |-> IdleResponse ]
    /\ fn_call \in { <<c>> : c \in CostCalls }
    /\ fn_out = <<>>

\* cost_tracker.calculate_cost(model_name, input_tokens, output_tokens)
apply_calculate_cost ==
    /\ fn_out = <<>>
    /\ fn_call[1].fn = "calculate_cost"
    /\ fn_out' =
           IF CostRaises(fn_call[1].model_name)
           THEN << FnRaised("KeyError") >>
           ELSE << FnReturned(calculate_cost(fn_call[1].model_name,
                        fn_call[1].input_tokens, fn_call[1].output_tokens)) >>
    /\ UNCHANGED <<ledger, loop, chatbot, fn_call>>

PricingNext == apply_calculate_cost

PricingSpec == PricingInit /\ [][PricingNext]_vars

----------------------------------------------------------------------------
(* Search tool: utils.py.  A URL is the sequence of its parts. *)

\* a key of a provider hit: absent, present with None, present with a text
Missing == [ key |-> FALSE, val |-> <<>> ]
Null == [ key |-> TRUE, val |-> <<>> ]
Has(text) == [ key |-> TRUE, val |-> <<text>> ]

\* item.get(key, default): <<>> is None
Get(entry, default) == IF entry.key THEN entry.val ELSE <<default>>

\* summarize_webpage_content whose fallback returns the content whole
summarize_webpage_content_uncut(webpage_content, summarizer) ==
    IF summarizer = "ok"
    THEN <<"<summary>", "Summary", "</summary>",
           "<key_excerpts>", "Excerpts", "</key_excerpts>">>
    ELSE webpage_content

\* summarize_webpage_content: the model's summary in its envelope, or, when the
\* summarization model raises, the content cut at 1000 (lengths in words)
summarize_webpage_content(webpage_content, summarizer) ==
    IF summarizer = "ok"
    THEN <<"<summary>", "Summary", "</summary>",
           "<key_excerpts>", "Excerpts", "</key_excerpts>">>
    ELSE IF Len(webpage_content) > 1000
         THEN SubSeq(webpage_content, 1, 1000) \o <<"...">>
         ELSE webpage_content

\* high_quality_domains, in the order of the dictionary
high_quality_domains ==
    << [ domain |-> "arxiv.org", score |-> 9, type |-> "preprint",
         indicator |-> "ArXiv preprint server" ],
       [ domain |-> "pubmed.ncbi.nlm.nih.gov", score |-> 10, type |-> "peer-reviewed",
         indicator |-> "PubMed indexed journal" ],
       [ domain |-> "nature.com", score |-> 10, type |-> "peer-reviewed",
         indicator |-> "Nature Publishing" ],
       [ domain |-> "science.org", score |-> 10, type |-> "peer-reviewed",
         indicator |-> "Science journal" ],
       [ domain |-> "ieee.org", score |-> 9, type |-> "peer-reviewed",
         indicator |-> "IEEE publication" ],
       [ domain |-> "acm.org", score |-> 9, type |-> "peer-reviewed",
         indicator |-> "ACM publication" ],
       [ domain |-> "springer.com", score |-> 8, type |-> "peer-reviewed",
         indicator |-> "Springer journal" ],
       [ domain |-> "elsevier.com", score |-> 8, type |-> "peer-reviewed",
         indicator |-> "Elsevier journal" ],
       [ domain |-> "jstor.org", score |-> 9, type |-> "peer-reviewed",
         indicator |-> "JSTOR academic archive" ],
       [ domain |-> "wiley.com", score |-> 8, type |-> "peer-reviewed",
         indicator |-> "Wiley journal" ],
       [ domain |-> "tandfonline.com", score |-> 8, type |-> "peer-reviewed",
         indicator |-> "Taylor & Francis journal" ] >>

\* quality_patterns, in the order of the dictionary
quality_patterns ==
    << [ pattern |-> <<"peer-reviewed">>, score |-> 2,
         indicator |-> "Contains 'peer-reviewed'" ],
       [ pattern |-> <<"peer", "reviewed">>, score |-> 2,
         indicator |-> "Contains 'peer reviewed'" ],
       [ pattern |-> <<"systematic", "review">>, score |-> 3,
         indicator |-> "Contains 'systematic review'" ],
       [ pattern |-> <<"meta-analysis">>, score |-> 3,
         indicator |-> "Contains 'meta-analysis'" ],
       [ pattern |-> <<"longitudinal", "study">>, score |-> 2,
         indicator |-> "Contains 'longitudinal study'" ],
       [ pattern |-> <<"randomized", "controlled">>, score |-> 3,
         indicator |-> "Contains 'randomized controlled'" ],
       [ pattern |-> <<"doi:">>, score |-> 2, indicator |-> "Contains 'doi:'" ],
       [ pattern |-> <<"pmid:">>, score |-> 2, indicator |-> "Contains 'pmid:'" ],
       [ pattern |-> <<"abstract">>, score |-> 1, indicator |-> "Contains 'abstract'" ],
       [ pattern |-> <<"methodology">>, score |-> 1,
         indicator |-> "Contains 'methodology'" ],
       [ pattern |-> <<"results">>, score |-> 1, indicator |-> "Contains 'results'" ],
       [ pattern |-> <<"conclusion">>, score |-> 1,
         indicator |-> "Contains 'conclusion'" ],
       [ pattern |-> <<"references">>, score |-> 1,
         indicator |-> "Contains 'references'" ],
       [ pattern |-> <<"bibliography">>, score |-> 1,
         indicator |-> "Contains 'bibliography'" ] >>

\* assess_source_quality without the cap min(quality_score, 10)
assess_source_quality_uncapped(url, title, content) ==
    LET url_lower == lower(url)
        matching == { i \in 1..Len(high_quality_domains) :
                        Contains(url_lower, <<high_quality_domains[i].domain>>) }
        first == CHOOSE i \in matching : \A j \in matching : i <= j
        content_lower == lower(content \o title)
        InContent(p) == Contains(content_lower, p.pattern)
        found == SelectSeq(quality_patterns, InContent)
        is_pdf == url_lower # <<>> /\ url_lower[Len(url_lower)] = ".pdf"
        quality_score ==
            (IF matching = {} THEN 0 ELSE high_quality_domains[first].score)
                + Sum([ i \in 1..Len(found) |-> found[i].score ])
                + (IF is_pdf THEN 1 ELSE 0)
    IN  [ quality_score |-> quality_score,
          source_type |->
              IF matching = {} THEN "general" ELSE high_quality_domains[first].type,
          quality_indicators |->
              (IF matching = {} THEN <<>>
               ELSE <<high_quality_domains[first].indicator>>)
                  \o [ i \in 1..Len(found) |-> found[i].indicator ]
                  \o (IF is_pdf THEN <<"PDF document">> ELSE <<>>),
          is_academic |-> quality_score >= 5 ]

\* assess_source_quality for three texts
assess_source_quality(url, title, content) ==
    LET url_lower == lower(url)
        matching == { i \in 1..Len(high_quality_domains) :
                        Contains(url_lower, <<high_quality_domains[i].domain>>) }
        first == CHOOSE i \in matching : \A j \in matching : i <= j
        content_lower == lower(content \o title)
        InContent(p) == Contains(content_lower, p.pattern)
        found == SelectSeq(quality_patterns, InContent)
        is_pdf == url_lower # <<>> /\ url_lower[Len(url_lower)] = ".pdf"
        quality_score ==
            (IF matching = {} THEN 0 ELSE high_quality_domains[first].score)
                + Sum([ i \in 1..Len(found) |-> found[i].score ])
                + (IF is_pdf THEN 1 ELSE 0)
    IN  [ quality_score |-> IF quality_score < 10 THEN quality_score ELSE 10,
          source_type |->
              IF matching = {} THEN "general" ELSE high_quality_domains[first].type,
          quality_indicators |->
              (IF matching = {} THEN <<>>
               ELSE <<high_quality_domains[first].indicator>>)
                  \o [ i \in 1..Len(found) |-> found[i].indicator ]
                  \o (IF is_pdf THEN <<"PDF document">> ELSE <<>>),
          is_academic |-> quality_score >= 5 ]

\* the terms whose presence in query.lower() marks an academic query
academic_terms ==
    { <<"academic">>, <<"research">>, <<"study">>, <<"peer-reviewed">>,
      <<"journal">>, <<"paper">>, <<"citation">>, <<"scholarly">>,
      <<"university">>, <<"systematic", "review">>, <<"meta-analysis">>,
      <<"site:arxiv.org">>, <<"site:scholar.google.com">>, <<"filetype:pdf">> }

is_academic_query(query) ==
    \E term \in academic_terms : Contains(lower(query), term)

\* max_results passed on as it is, whatever the query
RequestedResults_as_given(query, max_results) == max_results

\* max_results passed to tavily_client.search
RequestedResults(query, max_results) ==
    IF is_academic_query(query) THEN max_results * 2 ELSE max_results

\* the three texts of a hit as the loop reads them: <<>> is None
ItemTitle(item) == Get(item.title, <<"No", "title">>)
ItemUrl(item) == Get(item.url, <<"No", "URL">>)
ItemContent(item, c) ==
    IF c.include_raw_content /\ item.raw_content.key
    THEN IF item.raw_content.val = <<>>
         THEN <<summarize_webpage_content(<<>>, c.summarizer)>>
         ELSE <<summarize_webpage_content(item.raw_content.val[1], c.summarizer)>>
    ELSE Get(item.content, <<"No", "content", "available">>)

\* str(e) of the exception one loop iteration raises, "" when it raises none
ItemFailure(item, c) ==
    IF /\ c.include_raw_content
       /\ item.raw_content = Null
       /\ c.summarizer # "ok"
    THEN "object of type 'NoneType' has no len()"
    ELSE IF ItemUrl(item) = <<>>
    THEN "'NoneType' object has no attribute 'lower'"
    ELSE IF ItemContent(item, c) = <<>>
    THEN "unsupported operand type(s) for +: 'NoneType' and 'str'"
    ELSE IF ItemTitle(item) = <<>>
    THEN "can only concatenate str (not \"NoneType\") to str"
    ELSE ""

\* the entry appended to results_with_quality for one hit
AssessedItem(item, c) ==
    [ title |-> ItemTitle(item)[1],
      url |-> ItemUrl(item)[1],
      content |-> ItemContent(item, c)[1],
      quality |-> assess_source_quality(ItemUrl(item)[1], ItemTitle(item)[1],
                      ItemContent(item, c)[1]) ]

\* results_with_quality after the loop over the hits `items`
RECURSIVE results_with_quality(_, _)
results_with_quality(items, c) ==
    IF items = <<>> THEN <<>>
    ELSE <<AssessedItem(Head(items), c)>> \o results_with_quality(Tail(items), c)

\* the position in `results` of the element that a stable sort by descending
\* quality_score puts at position k
SortedPosition(results, k) ==
    CHOOSE i \in 1..Len(results) :
        k = 1 + Cardinality({ j \in 1..Len(results) :
                  \/ results[j].quality.quality_score > results[i].quality.quality_score
                  \/ /\ results[j].quality.quality_score = results[i].quality.quality_score
                     /\ j < i })

\* list.sort(key=quality_score, reverse=True): stable
RECURSIVE SortedFrom(_, _)
SortedFrom(results, k) ==
    IF k > Len(results) THEN <<>>
    ELSE <<results[SortedPosition(results, k)]>> \o SortedFrom(results, k + 1)

SortedByQuality(results) == SortedFrom(results, 1)

IsAcademicResult(r) == r.quality.is_academic

\* the academic filter with `if len(academic_results) >= 1`
AcademicIfAny(sorted, academic_results) ==
    IF Len(academic_results) >= 1 THEN academic_results ELSE sorted

\* results_with_quality after `if len(academic_results) >= 2`
AcademicIfEnough(sorted, academic_results) ==
    IF Len(academic_results) >= 2 THEN academic_results ELSE sorted

\* results_with_quality after the sort and the academic filter
KeptResults(all, academic) ==
    IF academic
    THEN AcademicIfEnough(SortedByQuality(all),
             SelectSeq(SortedByQuality(all), IsAcademicResult))
    ELSE all

\* kept[:max_results]
FirstResults(kept, max_results) ==
    SubSeq(kept, 1, IF max_results < Len(kept) THEN max_results ELSE Len(kept))

\* results_with_quality[:max_results] after the sort and the academic filter
SelectedResults(c) ==
    FirstResults(KeptResults(results_with_quality(c.provider.results, c),
                     is_academic_query(c.query)),
        c.max_results)

\* one element of formatted_results: the slots of the f-string
FormattedResult(i, item, academic) ==
    [ number |-> i,
      title |-> item.title,
      url |-> item.url,
      quality_info |->
          IF academic
          THEN << [ quality_score |-> item.quality.quality_score,
                    source_type |-> item.quality.source_type,
                    indicators |->
                        IF item.quality.quality_indicators # <<>>
                        THEN SubSeq(item.quality.quality_indicators, 1,
                                 IF Len(item.quality.quality_indicators) < 3
                                 THEN Len(item.quality.quality_indicators) ELSE 3)
                        ELSE <<"General source">> ] >>
          ELSE <<>>,
      content |-> item.content ]

\* a text returned by tavily_search: its leading words, then the numbered results
SearchText(prefix, results) == [ prefix |-> prefix, results |-> results ]

SearchFailed(reason) == SearchText(<<"Search", "failed:", reason>>, <<>>)

NoSearchResults == SearchText(<<"No", "search", "results", "found.">>, <<>>)

\* formatted_results for the selected entries
RECURSIVE FormattedFrom(_, _, _)
FormattedFrom(selected, i, academic) ==
    IF i > Len(selected) THEN <<>>
    ELSE <<FormattedResult(i, selected[i], academic)>>
             \o FormattedFrom(selected, i + 1, academic)

FormattedSearch(c) ==
    SearchText(IF is_academic_query(c.query)
               THEN <<"Academic-Enhanced", "Search", "Results">> ELSE <<>>,
               FormattedFrom(SelectedResults(c), 1, is_academic_query(c.query)))

\* str(e) of the first exception the loop over the hits raises
FirstItemFailure(c) ==
    LET failing == { i \in 1..Len(c.provider.results) :
                       ItemFailure(c.provider.results[i], c) # "" }
    IN  IF failing = {} THEN ""
        ELSE ItemFailure(c.provider.results[CHOOSE i \in failing :
                                               \A j \in failing : i <= j], c)

\* tavily_search with the loop over the hits outside the try block
SearchOutcome_loop_outside_try(c) ==
    IF c.provider.kind = "raises"
    THEN FnReturned(SearchFailed(c.provider.reason))
    ELSE IF c.provider.kind # "results"
    THEN FnReturned(NoSearchResults)
    ELSE IF FirstItemFailure(c) # ""
    THEN [ kind |-> "Exception", value |-> SearchFailed(FirstItemFailure(c)) ]
    ELSE FnReturned(FormattedSearch(c))

\* what tavily_search gives back after cost_tracker.track_tavily_search(1)
SearchOutcome(c) ==
    IF c.provider.kind = "raises"
    THEN FnReturned(SearchFailed(c.provider.reason))
    ELSE IF c.provider.kind # "results"
    THEN FnReturned(NoSearchResults)
    ELSE IF FirstItemFailure(c) # ""
    THEN FnReturned(SearchFailed(FirstItemFailure(c)))
    ELSE FnReturned(FormattedSearch(c))

\* the keyword arguments of tavily_client.search
ProviderRequest(c) ==
    [ query |-> c.query,
      max_results |-> RequestedResults(c.query, c.max_results),
      include_raw_content |-> c.include_raw_content ]

\* utils.tavily_search: the outcome, with the request made to the provider
tavily_search ==
    /\ fn_out = <<>>
    /\ fn_call[1].fn = "tavily_search"
    /\ track_tavily_search(1)
    /\ fn_out' = << [ kind |-> SearchOutcome(fn_call[1]).kind,
                      value |-> SearchOutcome(fn_call[1]).value,
                      request |-> ProviderRequest(fn_call[1]) ] >>
    /\ UNCHANGED <<ops, loop, chatbot, fn_call>>

\* what the provider can send back as one hit
Hit(title, url, content, raw_content) ==
    [ title |-> title, url |-> url, content |-> content, raw_content |-> raw_content ]

NatureUrl == <<"https://", "NATURE.COM", "/articles/ev">>
BlogUrl == <<"https://", "blog.example", "/ev">>

Hits ==
    { Hit(Has(<<"Battery", "ageing">>), Has(NatureUrl),
          Has(<<"Peer-Reviewed", "results">>), Missing),
      Hit(Has(<<"Battery", "ageing", "mirror">>), Has(NatureUrl),
          Has(<<"abstract">>), Missing),
      Hit(Has(<<"EV", "blog">>), Has(BlogUrl), Has(<<"opinion">>), Missing),
      Hit(Has(<<"Preprint">>), Has(<<"https://", "arxiv.org", "/pdf/1", ".pdf">>),
          Has(<<"methodology">>), Missing),
      Hit(Has(<<"Survey">>), Has(<<"https://", "news.example", "/survey">>),
          Has(<<"systematic", "review", "doi:">>),
          Has(<<"systematic", "review", "of", "EV", "batteries">>)),
      Hit(Has(<<"Broken">>), Null, Has(<<"opinion">>), Missing),
      Hit(Has(<<"Untitled">>), Has(<<"https://", "blog.example", "/2">>), Null, Null),
      Hit(Missing, Missing, Missing, Missing) }

HitSeqs == UNION { [ 1..n -> Hits ] : n \in 0..MaxHits }

\* what tavily_client.search does: raise, return nothing usable, return hits
Providers ==
    { [ kind |-> k, reason |-> "", results |-> <<>> ] : k \in { "none", "no_results_key" } }
        \cup { [ kind |-> "raises", reason |-> "Connection refused", results |-> <<>> ] }
        \cup { [ kind |-> "results", reason |-> "", results |-> r ] : r \in HitSeqs }

SearchQueries == { Query, <<"EV", "battery", "Research">> }

\* the calls of tavily_search; the provider sends at most the hits asked for
SearchCalls ==
    { c \in [ fn : { "tavily_search" }, query : SearchQueries, max_results : { 1, 2, 3 },
              include_raw_content : BOOLEAN, summarizer : { "ok", "RuntimeError" },
              provider : Providers ] :
        /\ Len(c.provider.results) <= RequestedResults(c.query, c.max_results)
        /\ ~ c.include_raw_content => c.summarizer = "ok" }

\* a session is open when the search tool is called
SearchInit ==
    /\ current_session = << CostSession(0, 0, "Basic Research", Query, 0) >>
    /\ session_history = <<>>
    /\ clock = 0
    /\ next_uid = 1
    /\ ret = [ Returned("session_id", 0, <<>>, <<>>)
                 EXCEPT !.args = <<"Basic Research", Query>> ]
    /\ ops = 0
    /\ InitLoop
    /\ InitChatbot
    /\ script = [ first |-> IdleResponse, then |-> IdleResponse ]
    /\ fn_call \in { <<c>> : c \in SearchCalls }
    /\ fn_out = <<>>

SearchNext == tavily_search

SearchSpec == SearchInit /\ [][SearchNext]_vars

----------------------------------------------------------------------------
(* assess_source_quality applied on its own *)

QualityUrls ==
    { <<"https://", high_quality_domains[i].domain, "/x">> :
        i \in 1..Len(high_quality_domains) }
        \cup { NatureUrl, BlogUrl,
               <<"https://", "blog.example", "/paper", ".pdf">>,
               <<"https://", "arxiv.org", "/abs/1", "?ref=", "nature.com">>,
               <<"https://", "nature.com", "/articles/1", "?via=", "springer.com">>,
               <<"https://", "jstor.org", "/stable/1", "?from=", "NATURE.COM">> }

QualityTitles == { <<"Battery", "ageing">>, <<"reviewed", "trial">> }

QualityContents ==
    { <<"opinion">>,
      <<"abstract">>,
      <<"double", "blind", "peer">>,
      <<"longitudinal", "study", "results">>,
      <<"systematic", "review", "of", "meta-analysis">>,
      <<"Peer-Reviewed", "randomized", "controlled", "trial", "doi:", "pmid:",
        "abstract", "methodology", "results", "conclusion", "references",
        "bibliography">> }

QualityCalls ==
    [ fn : { "assess_source_quality" }, url : QualityUrls, title : QualityTitles,
      content : QualityContents ]

QualityInit ==
    /\ InitLedger
    /\ InitLoop
    /\ InitChatbot
    /\ script = [ first |-> IdleResponse, then |-> IdleResponse ]
    /\ fn_call \in { <<c>> : c \in QualityCalls }
    /\ fn_out = <<>>

\* assess_source_quality(url, title, content), called a first and a second time
apply_assess_source_quality ==
    /\ Len(fn_out) < 2
    /\ fn_call[1].fn = "assess_source_quality"
    /\ fn_out' = Append(fn_out,
                     FnReturned(assess_source_quality(fn_call[1].url,
                         fn_call[1].title, fn_call[1].content)))
    /\ UNCHANGED <<ledger, loop, chatbot, fn_call>>

QualityNext == apply_assess_source_quality

QualitySpec == QualityInit /\ [][QualityNext]_vars

----------------------------------------------------------------------------
(* deduplicate_search_results applied on its own.  A dictionary is the        *)
(* sequence of its items in insertion order.                                  *)

\* unique_results after the inner loop over one response's results, where a
\* later result replaces the entry of its URL
RECURSIVE AddAllReplacing(_, _)
AddAllReplacing(unique_results, results) ==
    IF results = <<>> THEN unique_results
    ELSE LET url == Head(results).url
             present == { i \in 1..Len(unique_results) : unique_results[i].key = url }
         IN  AddAllReplacing(
                 IF present = {}
                 THEN Append(unique_results, [ key |-> url, value |-> Head(results) ])
                 ELSE [ i \in 1..Len(unique_results) |->
                          IF i \in present
                          THEN [ key |-> url, value |-> Head(results) ]
                          ELSE unique_results[i] ],
                 Tail(results))

\* unique_results after the inner loop over one response's results
RECURSIVE AddAll(_, _)
AddAll(unique_results, results) ==
    IF results = <<>> THEN unique_results
    ELSE LET url == Head(results).url
         IN  AddAll(IF \E i \in 1..Len(unique_results) : unique_results[i].key = url
                    THEN unique_results
                    ELSE Append(unique_results, [ key |-> url, value |-> Head(results) ]),
                    Tail(results))

\* unique_results after the outer loop over the responses
RECURSIVE AddResponses(_, _)
AddResponses(unique_results, search_results) ==
    IF search_results = <<>> THEN unique_results
    ELSE AddResponses(AddAll(unique_results, Head(search_results).results),
             Tail(search_results))

\* utils.deduplicate_search_results
deduplicate_search_results(search_results) ==
    AddResponses(<<>>, search_results)

\* list(unique_results.values())
Values(dictionary) == [ i \in 1..Len(dictionary) |-> dictionary[i].value ]

SearchResult(url, title, content) ==
    [ url |-> url, title |-> title, content |-> content ]

DedupResults ==
    { SearchResult(NatureUrl, <<"Battery", "ageing">>, <<"abstract">>),
      SearchResult(NatureUrl, <<"Battery", "ageing", "mirror">>, <<"abstract">>),
      SearchResult(BlogUrl, <<"EV", "blog">>, <<"opinion">>) }

DedupBatches ==
    { [ results |-> r ] : r \in UNION { [ 1..n -> DedupResults ] : n \in 0..MaxBatchLen } }

DedupCalls ==
    [ fn : { "deduplicate_search_results" },
      search_results : UNION { [ 1..n -> DedupBatches ] : n \in 0..MaxBatches } ]

DedupInit ==
    /\ InitLedger
    /\ InitLoop
    /\ InitChatbot
    /\ script = [ first |-> IdleResponse, then |-> IdleResponse ]
    /\ fn_call \in { <<c>> : c \in DedupCalls }
    /\ fn_out = <<>>

\* deduplicate_search_results(search_results), a first and a second time
apply_deduplicate_search_results ==
    /\ Len(fn_out) < 2
    /\ fn_call[1].fn = "deduplicate_search_results"
    /\ fn_out' = Append(fn_out,
                     FnReturned(deduplicate_search_results(fn_call[1].search_results)))
    /\ UNCHANGED <<ledger, loop, chatbot, fn_call>>

\* deduplicate_search_results([{'results': list(unique_results.values())}])
apply_deduplicate_to_own_output ==
    /\ Len(fn_out) = 2
    /\ fn_call[1].fn = "deduplicate_search_results"
    /\ fn_out' = Append(fn_out,
                     FnReturned(deduplicate_search_results(
                         << [ results |-> Values(fn_out[1].value) ] >>)))
    /\ UNCHANGED <<ledger, loop, chatbot, fn_call>>

DedupNext ==
    \/ apply_deduplicate_search_results
    \/ apply_deduplicate_to_own_output

DedupSpec == DedupInit /\ [][DedupNext]_vars

----------------------------------------------------------------------------
(* summarize_webpage_content applied on its own; a text is the sequence of    *)
(* its characters here, so that the cut at 1000 is the code's                 *)

ContentLengths == { 0, 1, 2, 3, 998, 999, 1000, 1001, 1002, 1003, 1500 }

ContentCharacters == { "a", "<", "." }

WebpageContents ==
    { [ i \in 1..n |-> ch ] : n \in ContentLengths, ch \in ContentCharacters }

SummarizeCalls ==
    [ fn : { "summarize_webpage_content" },
      webpage_content : WebpageContents,
      summarizer : { "ok", "raises" } ]

SummarizeInit ==
    /\ InitLedger
    /\ InitLoop
    /\ InitChatbot
    /\ script = [ first |-> IdleResponse, then |-> IdleResponse ]
    /\ fn_call \in { <<c>> : c \in SummarizeCalls }
    /\ fn_out = <<>>

\* summarize_webpage_content(webpage_content); the function has no raise of
\* its own and catches Exception around all it does
apply_summarize_webpage_content ==
    /\ fn_out = <<>>
    /\ fn_call[1].fn = "summarize_webpage_content"
    /\ fn_out' = << FnReturned(summarize_webpage_content(
                        fn_call[1].webpage_content, fn_call[1].summarizer)) >>
    /\ UNCHANGED <<ledger, loop, chatbot, fn_call>>

SummarizeNext == apply_summarize_webpage_content

SummarizeSpec == SummarizeInit /\ [][SummarizeNext]_vars

----------------------------------------------------------------------------
(* The scoping stage and the scoped wrappers (main.py).  A text is the        *)
(* sequence of its words and marks; "||" stands for a blank line.             *)

BlankLine == "||"

\* the outcomes of scope_research.ainvoke: a result dictionary with its last
\* message and its optional research_brief, or an exception
ScopeResult(has_messages, ai_response, research_brief) ==
    [ kind |-> "result", has_messages |-> has_messages,
      ai_response |-> ai_response, research_brief |-> research_brief,
      message |-> <<>> ]

ScopeRaises(message) ==
    [ kind |-> "raises", has_messages |-> FALSE,
      ai_response |-> <<>>, research_brief |-> <<>>, message |-> message ]

\* the indicators of a clarifying question (line 61)
ClarificationIndicators ==
    { <<"?">>, <<"clarify">>, <<"please", "provide">>, <<"could", "you">>,
      <<"what", "specific">>, <<"more", "details">> }

formatted_brief(research_brief) ==
    <<"##", "Research", "Brief", "Generated", BlankLine>> \o research_brief
        \o <<BlankLine, "---", "**", "Ready", "to", "Research", "**">>

formatted_response(ai_response) ==
    <<"##", "Clarification", "Needed", BlankLine>> \o ai_response
        \o <<BlankLine, "---", "**", "Next", "Steps", "**", BlankLine,
             "**", "Helpful", "details", "to", "include:", "**">>

formatted_complete(ai_response) ==
    <<"##", "Scoping", "Complete", BlankLine>> \o ai_response
        \o <<BlankLine, "---", "**", "Ready", "to", "Proceed", "**">>

\* the except branch answering with the clarification text
ScopingFailure_as_clarification(message) == formatted_response(message)

\* the texts of the except branch (lines 85-93); their "\\n\\n" is a
\* backslash and an n twice, no blank line
ScopingFailure(message) ==
    IF Contains(lower(message), <<"authentication">>) \/ Contains(lower(message), <<"api_key">>)
    THEN <<"**", "Configuration", "Issue", "**", "\\n\\n", "*", "Error:">> \o message \o <<"*">>
    ELSE IF Contains(lower(message), <<"model">>)
    THEN <<"**", "Model", "Issue", "**", "\\n\\n", "*", "Error:">> \o message \o <<"*">>
    ELSE <<"**", "Scoping", "Error", "**", "\\n\\n">> \o message \o <<"\\n\\n", "*", "Please", "try", "rephrasing", "*">>

\* any(indicator in ai_response.lower() for indicator in [...])
LooksLikeQuestion(ai_response) ==
    \E indicator \in ClarificationIndicators : Contains(lower(ai_response), indicator)

\* main.run_scoping_research
run_scoping_research(query, scope) ==
    IF scope.kind = "raises" THEN ScopingFailure(scope.message)
    ELSE IF ~scope.has_messages
    THEN <<"**", "Scoping", "Error", "**", "\\n\\n", "No", "response", "received">>
    ELSE IF scope.research_brief # <<>> /\ scope.research_brief[1] # <<>>
    THEN formatted_brief(scope.research_brief[1])
    ELSE IF LooksLikeQuestion(scope.ai_response)
    THEN formatted_response(scope.ai_response)
    ELSE formatted_complete(scope.ai_response)

\* the wrappers' check with another marker
NeedsClarification_other_marker(scoping_result) ==
    Contains(scoping_result, <<"Clarification", "Required">>)

\* "Clarification Needed" in scoping_result
NeedsClarification(scoping_result) ==
    Contains(scoping_result, <<"Clarification", "Needed">>)

\* str.strip() of the blank lines at both ends
RECURSIVE Strip(_)
Strip(text) ==
    IF text = <<>> THEN text
    ELSE IF Head(text) = BlankLine THEN Strip(Tail(text))
    ELSE IF text[Len(text)] = BlankLine THEN Strip(SubSeq(text, 1, Len(text) - 1))
    ELSE text

BriefPattern == <<"**", "Research", "Brief", "Generated", "**", BlankLine>>

\* re.search(r'\*\*Research Brief Generated\*\*\n\n(.*?)\n\n\*', text, re.DOTALL):
\* <<group(1)>> of the leftmost match with the shortest group, <<>> for None
brief_match(text) ==
    LET Ends(i) == { j \in (i + Len(BriefPattern))..(Len(text) - 1) :
                       /\ text[j] = BlankLine
                       /\ text[j + 1] \in { "*", "**" } }
        Starts == { i \in 1..Len(text) :
                      /\ i + Len(BriefPattern) - 1 <= Len(text)
                      /\ SubSeq(text, i, i + Len(BriefPattern) - 1) = BriefPattern
                      /\ Ends(i) # {} }
    IN  IF Starts = {} THEN <<>>
        ELSE LET i == CHOOSE s \in Starts : \A t \in Starts : s <= t
                 j == CHOOSE n \in Ends(i) : \A m \in Ends(i) : n <= m
             IN  << SubSeq(text, i + Len(BriefPattern), j - 1) >>

\* the research_query of the wrappers (step 2)
research_query(query, scoping_result) ==
    IF Contains(scoping_result, <<"Research", "Brief", "Generated">>)
          /\ brief_match(scoping_result) # <<>>
    THEN Strip(brief_match(scoping_result)[1])
    ELSE query

ScopedWrappers ==
    { "run_scoped_basic_research", "run_scoped_mcp_research",
      "run_scoped_enhanced_mcp_research", "run_scoped_full_research" }

\* the research function a wrapper awaits in step 3
Runner(wrapper) ==
    CASE wrapper = "run_scoped_basic_research" -> "run_basic_research"
      [] wrapper = "run_scoped_mcp_research" -> "run_mcp_research"
      [] wrapper = "run_scoped_enhanced_mcp_research" -> "run_enhanced_mcp_research"
      [] wrapper = "run_scoped_full_research" -> "run_full_research"

\* what the research function gives back for what its agent did: the agent's
\* text, the default text, the text for a missing MCP package, or the
\* exception
RunnerOutcome(runner, research) ==
    IF research.kind = "returned" THEN FnReturned(research.value)
    ELSE IF research.kind = "nothing"
    THEN FnReturned(IF runner = "run_full_research"
                    THEN <<"No", "final", "report", "generated">>
                    ELSE <<"No", "research", "results", "found">>)
    ELSE IF research.kind = "ImportError"
            /\ runner \in { "run_mcp_research", "run_enhanced_mcp_research" }
    THEN FnReturned(<<"MCP", "research", "not", "available">>)
    ELSE FnRaised(research.kind)

\* step 1 of a wrapper: await run_scoping_research(query)
scoped_run_scoping ==
    /\ fn_out = <<>>
    /\ fn_call[1].fn \in ScopedWrappers
    /\ fn_out' = << [ kind |-> "scoping_result",
                      value |-> run_scoping_research(fn_call[1].query, fn_call[1].scope) ] >>
    /\ UNCHANGED <<ledger, loop, chatbot, fn_call>>

\* the early return of a wrapper
scoped_return_clarification ==
    /\ Len(fn_out) = 1
    /\ fn_call[1].fn \in ScopedWrappers
    /\ NeedsClarification(fn_out[1].value)
    /\ fn_out' = Append(fn_out,
                     FnReturned(<<"**", "Scoping", "Phase", "**", BlankLine>>
                                \o fn_out[1].value
                                \o <<BlankLine, "*", "Please", "provide", "the",
                                     "requested", "clarification", "*">>))
    /\ UNCHANGED <<ledger, loop, chatbot, fn_call>>

\* steps 2 and 3 of a wrapper, up to the call of the research function
scoped_run_research ==
    /\ Len(fn_out) = 1
    /\ fn_call[1].fn \in ScopedWrappers
    /\ ~NeedsClarification(fn_out[1].value)
    /\ fn_out' = Append(fn_out,
                     [ kind |-> "research",
                       value |-> [ runner |-> Runner(fn_call[1].fn),
                                   query |-> research_query(fn_call[1].query,
                                                            fn_out[1].value) ] ])
    /\ UNCHANGED <<ledger, loop, chatbot, fn_call>>

\* the research function comes back and the wrapper returns or raises
scoped_return_research ==
    /\ Len(fn_out) = 2
    /\ fn_call[1].fn \in ScopedWrappers
    /\ fn_out[2].kind = "research"
    /\ LET outcome == RunnerOutcome(fn_out[2].value.runner, fn_call[1].research)
       IN  fn_out' = Append(fn_out,
                         IF outcome.kind = "returned"
                         THEN FnReturned(<<"**", "Research", "Complete", "**", BlankLine>>
                                         \o outcome.value)
                         ELSE outcome)
    /\ UNCHANGED <<ledger, loop, chatbot, fn_call>>

ScopingResponses ==
    { <<"Could", "you", "specify", "a", "time", "period", "?">>,
      <<"Please", "provide", "the", "region">>,
      <<"I", "have", "enough", "information">>,
      <<"No", "Clarification", "Needed", "starting", "now">>,
      <<>> }

ResearchBriefs ==
    { <<>>,
      << <<>> >>,
      << <<"Compare", "EV", "battery", "ageing">> >>,
      << Query >>,
      << <<"**", "Research", "Brief", "Generated", "**", BlankLine,
           "EV", "market", "2024", BlankLine, "*", "draft", "*">> >> }

ScopeOutcomes ==
    { ScopeResult(has_messages, ai_response, research_brief) :
          has_messages \in BOOLEAN, ai_response \in ScopingResponses,
          research_brief \in ResearchBriefs }
    \cup { ScopeRaises(message) :
             message \in { <<"Invalid", "api_key">>, <<"model", "overloaded">>,
                           <<"Connection", "refused">> } }

ResearchOutcomes ==
    { [ kind |-> "returned", value |-> <<"EV", "sales", "grew">> ],
      [ kind |-> "nothing", value |-> <<>> ],
      [ kind |-> "ImportError", value |-> <<>> ],
      [ kind |-> "TimeoutError", value |-> <<>> ] }

ScopedCalls ==
    [ fn : ScopedWrappers, query : { Query }, scope : ScopeOutcomes,
      research : ResearchOutcomes ]

ScopedInit ==
    /\ InitLedger
    /\ InitLoop
    /\ InitChatbot
    /\ script = [ first |-> IdleResponse, then |-> IdleResponse ]
    /\ fn_call \in { <<c>> : c \in ScopedCalls }
    /\ fn_out = <<>>

ScopedNext ==
    \/ scoped_run_scoping
    \/ scoped_return_clarification
    \/ scoped_run_research
    \/ scoped_return_research

ScopedSpec == ScopedInit /\ [][ScopedNext]_vars

----------------------------------------------------------------------------
(* The clarification chatbot (clarification_chatbot.py) *)

\* the methods of the class CostTracker
CostTrackerMethods ==
    { "start_session", "end_session", "track_model_call", "track_tavily_search",
      "calculate_cost", "estimate_research_cost", "get_session_summary",
      "get_daily_summary", "_get_mode_breakdown" }

completion_indicators ==
    { <<"great!", "i", "think", "we", "have", "a", "clear", "research", "direction">>,
      <<"research", "brief:">>,
      <<"ready", "to", "research:">>,
      <<"here's", "your", "research", "brief">>,
      <<"final", "research", "question:">>,
      <<"research", "scope:">> }

HistoryEntry(role, content, timestamp) ==
    [ role |-> role, content |-> content, timestamp |-> timestamp ]

\* the places where phrase begins in text
Occurrences(text, phrase) ==
    { i \in 1..(Len(text) - Len(phrase) + 1) :
        SubSeq(text, i, i + Len(phrase) - 1) = phrase }

\* text.split(phrase)[1], for a text in which the phrase occurs
SecondPart(text, phrase) ==
    LET first == CHOOSE i \in Occurrences(text, phrase) :
                     \A j \in Occurrences(text, phrase) : i <= j
        rest == SubSeq(text, first + Len(phrase), Len(text))
    IN  IF Occurrences(rest, phrase) = {} THEN rest
        ELSE SubSeq(rest, 1, (CHOOSE i \in Occurrences(rest, phrase) :
                                  \A j \in Occurrences(rest, phrase) : i <= j) - 1)

\* " ".join of the contents of the user entries
RECURSIVE UserContext(_)
UserContext(history) ==
    IF history = <<>> THEN <<>>
    ELSE (IF Head(history).role = "user" THEN Head(history).content ELSE <<>>)
             \o UserContext(Tail(history))

\* ClarificationChatbot._extract_research_brief
extract_research_brief(history, bot_response, user_context) ==
    IF Contains(lower(bot_response), <<"research", "brief:">>)
    THEN SecondPart(lower(bot_response), <<"research", "brief:">>)
    ELSE <<"##", "Research", "Brief", "**Primary Question**:">> \o user_context
             \o <<"**Research Context**:">>
             \o (IF Len(UserContext(history)) > 200
                 THEN SubSeq(UserContext(history), 1, 200)
                 ELSE UserContext(history))
             \o <<"...">>

\* what line 80 to 81 of chat gives: the model's reply, or the exception
\* raised there
ModelReply(reply) ==
    IF "track_model_usage" \notin CostTrackerMethods
    THEN [ kind |-> "AttributeError",
           content |-> <<"'CostTracker' object has no attribute 'track_model_usage'">> ]
    ELSE reply

\* the except branch of chat with nothing added to the history
FailedChat_silent(history, e) ==
    [ history |-> history,
      returned |-> [ response |-> <<"I'm", "having", "trouble", "(Error:">> \o e.content \o <<")">>,
                     is_complete |-> FALSE, research_brief |-> <<>>,
                     conversation_length |-> Len(history) ] ]

\* the except branch of chat: the history it leaves and what it returns
FailedChat(history, e) ==
    LET error_response == <<"I'm", "having", "trouble", "(Error:">> \o e.content \o <<")">>
        after == Append(history, HistoryEntry("assistant", error_response, 1))
    IN  [ history |-> after,
          returned |-> [ response |-> error_response, is_complete |-> FALSE,
                         research_brief |-> <<>>,
                         conversation_length |-> Len(after) ] ]

\* ClarificationChatbot.chat
chat(user_message, reply) ==
    LET asked == Append(chatbot.conversation_history, HistoryEntry("user", user_message, 0))
        answer == ModelReply(reply)
        answered == Append(asked, HistoryEntry("assistant", answer.content, 1))
        is_complete == \E indicator \in completion_indicators :
                           Contains(lower(answer.content), indicator)
        brief == extract_research_brief(answered, answer.content, user_message)
    IN  /\ Len(chatbot.conversation_history) < 2 * MaxChats
        /\ fn_call' = << [ fn |-> "chat", user_message |-> user_message, reply |-> reply ] >>
        /\ IF answer.kind # "ok"
           THEN /\ chatbot' = [ chatbot EXCEPT
                                  !.model = <<"gpt-4o-mini">>,
                                  !.conversation_history = FailedChat(asked, answer).history ]
                /\ fn_out' = << FnReturned(FailedChat(asked, answer).returned) >>
           ELSE /\ chatbot' = [ chatbot EXCEPT
                                  !.model = <<"gpt-4o-mini">>,
                                  !.conversation_history = answered,
                                  !.research_brief = IF is_complete THEN <<brief>> ELSE @,
                                  !.is_ready_for_research = IF is_complete THEN TRUE ELSE @ ]
                /\ fn_out' = << FnReturned([ response |-> answer.content,
                                             is_complete |-> is_complete,
                                             research_brief |-> IF is_complete THEN <<brief>> ELSE <<>>,
                                             conversation_length |-> Len(answered) ]) >>
        /\ UNCHANGED <<ledger, loop>>

\* ClarificationChatbot.reset_conversation
reset_conversation ==
    /\ fn_call' = << [ fn |-> "reset_conversation", user_message |-> <<>>,
                       reply |-> [ kind |-> "none", content |-> <<>> ] ] >>
    /\ chatbot' = [ chatbot EXCEPT !.conversation_history = <<>>,
                                   !.research_brief = <<>>,
                                   !.is_ready_for_research = FALSE ]
    /\ fn_out' = << [ kind |-> "returned", value |-> <<>> ] >>
    /\ UNCHANGED <<ledger, loop>>

UserMessages == { Query, <<"EV", "battery", "ageing">>, <<"2020", "to", "2024">> }

ModelReplies ==
    { [ kind |-> "ok",
        content |-> <<"Great!", "I", "think", "we", "have", "a", "clear", "research",
                      "direction", "now.", "Research", "Brief:", "EV", "market", "2024">> ],
      [ kind |-> "ok", content |-> <<"Here's", "your", "research", "brief">> ],
      [ kind |-> "ok", content |-> <<"What", "time", "period", "?">> ],
      [ kind |-> "TimeoutError", content |-> <<"Request", "timed", "out">> ] }

ChatInit ==
    /\ InitLedger
    /\ InitLoop
    /\ InitChatbot
    /\ script = [ first |-> IdleResponse, then |-> IdleResponse ]
    /\ InitFunctions

ChatNext ==
    \/ \E user_message \in UserMessages, reply \in ModelReplies : chat(user_message, reply)
    \/ reset_conversation

ChatSpec == ChatInit /\ [][ChatNext]_vars

----------------------------------------------------------------------------
(* Vocabulary of the properties *)

Last(seq) == seq[Len(seq)]

\* the reasoning model answers every invocation
ModelAnswers == script.first.kind = "ok" /\ script.then.kind = "ok"

\* the model requests at least one tool in every response
AlwaysRequestsTool ==
    /\ ModelAnswers
    /\ script.first.tool_calls # <<>>
    /\ script.then.tool_calls # <<>>

\* the model never requests a tool
NeverRequestsTool ==
    /\ ModelAnswers
    /\ script.first.tool_calls = <<>>
    /\ script.then.tool_calls = <<>>

\* the model never emits a completion phrase
NeverSaysComplete ==
    /\ ~ HasCompletionPhrase(script.first.content)
    /\ ~ HasCompletionPhrase(script.then.content)

\* positions of the assistant turns of the transcript
AITurns == { i \in 1..Len(researcher_messages) : researcher_messages[i].type = "ai" }

\* the most recent assistant response
LastAITurn == researcher_messages[CHOOSE i \in AITurns : \A j \in AITurns : j <= i]

\* the graph has left the agent node for the compression node
AfterLoop == pc = "enhanced_compress_research" \/ compress_invocations > 0

\* the compression call itself raised
CompressionRaised == compress_invocations = 1 /\ exc # <<>>

----------------------------------------------------------------------------
(* C1: with a reasoning model that requests at least one tool in every      *)
(* response and never emits a completion phrase, every run that enters the *)
(* agent node eventually leaves it, enters enhanced_compress_research and  *)
(* reaches END (the compression call answering); it cannot loop forever.   *)
C1_BoundedLoopTerminates ==
    (AlwaysRequestsTool /\ NeverSaysComplete /\ pc = "enhanced_researcher_agent")
        ~> (compress_invocations = 1 /\ (pc = "END" \/ CompressionRaised))

\* the loop was stopped by the turn cap, no message holding a completion phrase
C1_Witness ==
    /\ AlwaysRequestsTool /\ NeverSaysComplete
    /\ pc = "END"
    /\ Len(researcher_messages) >= TurnCap
    /\ \A i \in 1..Len(researcher_messages) :
          ~ HasCompletionPhrase(researcher_messages[i].content)

(* C2: whenever the reasoning model's response holds no tool request, the  *)
(* next transition is to the compression step; so a model that never      *)
(* requests tools is invoked exactly once in a run.                        *)
C2_NoToolRequestGoesToCompression ==
    /\ (AITurns # {} /\ Last(researcher_messages).type = "ai")
          => pc # "enhanced_researcher_agent"
    /\ NeverRequestsTool => model_invocations <= 1

(* C3: whenever the most recent assistant response holds a completion      *)
(* phrase, the next transition is to compression and the reasoning model   *)
(* is not invoked again, also when that response requested tools.          *)
C3_CompletionPhraseStopsLoop ==
    (AITurns # {} /\ HasCompletionPhrase(LastAITurn.content))
        => pc # "enhanced_researcher_agent"

(* C4: every assistant turn that requests n tools is followed, before the  *)
(* next assistant turn, by exactly n tool-result turns, one per request,   *)
(* in request order and carrying the request's call identifier; no         *)
(* tool-result turn exists without its request.                            *)
C4_ToolResultsCorrelated ==
    /\ \A i \in AITurns :
          LET calls == researcher_messages[i].tool_calls
              n == Len(calls)
          IN  /\ i + n <= Len(researcher_messages)
              /\ \A k \in 1..n :
                    /\ researcher_messages[i + k].type = "tool"
                    /\ researcher_messages[i + k].tool_call_id = calls[k].id
              /\ i + n < Len(researcher_messages)
                    => researcher_messages[i + n + 1].type = "ai"
    /\ \A j \in 1..Len(researcher_messages) :
          researcher_messages[j].type = "tool" =>
              \E i \in AITurns :
                  /\ i < j
                  /\ j - i <= Len(researcher_messages[i].tool_calls)
                  /\ researcher_messages[j].tool_call_id
                        = researcher_messages[i].tool_calls[j - i].id

\* a turn with two different requests answered, and a later assistant turn
C4_Witness ==
    \E i \in AITurns :
        /\ Len(researcher_messages[i].tool_calls) = 2
        /\ researcher_messages[i].tool_calls[1].name
              # researcher_messages[i].tool_calls[2].name
        /\ i + 3 \in AITurns

\* the call at position k of the assistant turn i failed
UnknownTool(i, k) ==
    researcher_messages[i].tool_calls[k].name \notin tools_by_name

RaisingTool(i, k) ==
    /\ ~ UnknownTool(i, k)
    /\ ToolRaises(researcher_messages[i].tool_calls[k].name,
                  researcher_messages[i].tool_calls[k].args)

C5_FailureTurns ==
    \A i \in AITurns :
        \A k \in 1..Len(researcher_messages[i].tool_calls) :
            LET call == researcher_messages[i].tool_calls[k]
            IN  /\ i + k <= Len(researcher_messages)
                /\ researcher_messages[i + k].type = "tool"
                /\ researcher_messages[i + k].tool_call_id = call.id
                /\ UnknownTool(i, k) =>
                      researcher_messages[i + k].content
                          = <<"Unknown", "tool:", call.name>>
                /\ RaisingTool(i, k) =>
                      SubSeq(researcher_messages[i + k].content, 1, 3)
                          = <<"Tool", "execution", "error:">>

(* C5: an unknown tool name or a tool that raises yields a tool-result turn *)
(* with an error message and the same call identifier, the remaining tools *)
(* of the turn are still executed, and the agent step goes on to the       *)
(* continuation decision instead of raising.                               *)
C5_ToolFailureIsolated ==
    /\ []C5_FailureTurns
    /\ [][ (pc = "enhanced_researcher_agent"
              /\ ModelResponse(model_invocations + 1).kind = "ok")
           => (/\ exc' = <<>>
               /\ pc' \in { "enhanced_researcher_agent",
                            "enhanced_compress_research" }) ]_vars

\* an unknown tool and a raising tool, each followed by an executed tool of the
\* same turn, and the loop back at the agent node
C5_Witness ==
    /\ pc = "enhanced_researcher_agent"
    /\ \E i \in AITurns :
          /\ Len(researcher_messages[i].tool_calls) = 2
          /\ UnknownTool(i, 1)
          /\ researcher_messages[i + 2].content = <<"Reflection", "recorded:", "plan">>
    /\ \E i \in AITurns :
          /\ Len(researcher_messages[i].tool_calls) = 2
          /\ RaisingTool(i, 1)
          /\ researcher_messages[i + 2].content = <<"Reflection", "recorded:", "plan">>

(* C6: inside an open ledger session every reasoning-model invocation,     *)
(* every compression-model invocation and every search-tool execution      *)
(* appends exactly one record (the enhanced tool table holds no search     *)
(* tool, so its runs execute no search).                                   *)
C6_EveryInvocationRecorded ==
    current_session # <<>> =>
        Len(current_session[1].model_calls)
            = model_invocations + compress_invocations

(* C7 as stated: the value returned to the caller is exactly the           *)
(* compression model's text, or the sentinel when no compressed result     *)
(* was produced.                                                           *)
C7_ReturnsTextOrSentinel ==
    result # <<>> =>
        result = IF compressed_research # <<>> THEN compressed_research
                 ELSE <<NoResultsSentinel>>

(* C7, amended: compressed_research is written only by the compression     *)
(* step; the value returned is the fixed "not available" text when an      *)
(* ImportError was raised, else exactly the compression model's text, the  *)
(* sentinel standing in only when no compressed result was produced.       *)
C7_ResultWrittenByCompression ==
    /\ [][ compressed_research' # compressed_research
           => (/\ pc = "enhanced_compress_research"
               /\ compress_invocations' = compress_invocations + 1) ]_vars
    /\ [](result # <<>> =>
            result = IF exc = <<"ImportError">> THEN <<UnavailableText>>
                     ELSE IF compressed_research # <<>> THEN compressed_research
                     ELSE <<NoResultsSentinel>>)

\* a run returned the (empty or not) text its compression step wrote
C7_Witness ==
    /\ pc = "returned"
    /\ exc = <<>>
    /\ compress_invocations = 1
    /\ result = compressed_research

\* first response: one search request; every later response: no tool request
\* and the text "Research Complete"
SearchThenStop ==
    /\ ModelAnswers
    /\ Len(script.first.tool_calls) = 1
    /\ script.first.tool_calls[1].name = "search_files"
    /\ script.then.tool_calls = <<>>
    /\ HasCompletionPhrase(script.then.content)

(* C8: in the search-then-stop scenario the run visits the model step      *)
(* exactly twice and the tool step exactly once before compression.        *)
C8_SearchThenStop ==
    (SearchThenStop /\ AfterLoop) => (model_invocations = 2 /\ tool_visits = 1)

HistoryIndex == 1..Len(session_history)

C10_SessionsWellFormed ==
    /\ Len(current_session) <= 1
    /\ current_session # <<>> =>
          /\ current_session[1].end_time = <<>>
          /\ \A i \in HistoryIndex :
                session_history[i].uid # current_session[1].uid
    /\ \A i \in HistoryIndex : session_history[i].end_time # <<>>
    /\ \A i, j \in HistoryIndex :
          session_history[i].uid = session_history[j].uid => i = j

(* C10: after any sequence of ledger calls at most one session is open, it *)
(* has no end time and is not archived; every archived session has its end *)
(* time set, is archived once, and is never changed afterwards.            *)
C10_LedgerSessionInvariant ==
    /\ []C10_SessionsWellFormed
    /\ [][ \A i \in HistoryIndex :
              /\ i <= Len(session_history')
              /\ session_history'[i] = session_history[i] ]_vars

\* two sessions archived and a third open with a record in it
C10_Witness ==
    /\ Len(session_history) >= 2
    /\ current_session # <<>>
    /\ current_session[1].model_calls # <<>>

\* C11: every session opened for a research run is eventually closed when the
\* run terminates, by returning or by raising: its end time is set and it is
\* the last entry of session_history
C11_SessionClosedOnEveryOutcome ==
    (current_session # <<>>)
        ~> (/\ current_session = <<>>
            /\ session_history # <<>>
            /\ Last(session_history).end_time # <<>>)

\* prefix of a sequence
IsPrefix(s, t) == Len(s) <= Len(t) /\ SubSeq(t, 1, Len(s)) = s

\* the session object `session`, with at least the records it holds now, is
\* what get_session_summary reports or one of the archived sessions
StillInLedger(session, slot, history) ==
    \/ /\ slot # <<>>
       /\ slot[1].uid = session.uid
       /\ IsPrefix(session.model_calls, slot[1].model_calls)
    \/ \E i \in 1..Len(history) :
           /\ history[i].uid = session.uid
           /\ IsPrefix(session.model_calls, history[i].model_calls)

\* C12: a session left open (its run abandoned, end_session never called for
\* it) stays in the ledger with every record appended so far, whatever ledger
\* operation comes next
C12_AbandonedSessionsStayQueryable ==
    [][ current_session # <<>> =>
            StillInLedger(current_session[1], current_session', session_history') ]_vars

\* a step made by a call of start_session: it is the only call that leaves a
\* session id in ret, and the clock does not move during a call
StartSessionStep == ret'.kind = "session_id" /\ clock' = clock

\* C13: start_session while a session is open does not raise; afterwards the
\* active slot holds one session, a new object with the mode and query of the
\* call and no records, in place of the session that was open
C13_StartWhileOpenReplaces ==
    [][ (current_session # <<>> /\ StartSessionStep) =>
            /\ Len(current_session') = 1
            /\ current_session'[1].uid # current_session[1].uid
            /\ current_session'[1].uid \notin
                   { session_history[i].uid : i \in 1..Len(session_history) }
            /\ current_session'[1].research_mode = ret'.args[1]
            /\ current_session'[1].query = ret'.args[2]
            /\ current_session'[1].model_calls = <<>>
            /\ current_session'[1].end_time = <<>> ]_vars

\* a second session was started over the first, which was never archived
C13_Witness ==
    /\ ret.kind = "session_id"
    /\ current_session # <<>>
    /\ current_session[1].uid = 1
    /\ session_history = <<>>

\* a step made by a call of track_model_call: it returned a record of a model
\* operation or raised, and the clock does not move during a call
TrackModelCallStep ==
    /\ clock' = clock
    /\ \/ ret'.kind = "KeyError"
       \/ ret'.kind = "usage" /\ ret'.usage[1].operation = "model_invoke"

\* C14: track_model_call returns its record; with an open session the record
\* is appended to the end of that session's list and nothing else changes,
\* with no open session neither current_session nor session_history changes
C14_TrackModelCallFrame ==
    [][ TrackModelCallStep =>
            /\ ret'.kind = "usage"
            /\ current_session' =
                   IF current_session # <<>>
                   THEN << [ current_session[1] EXCEPT
                               !.model_calls = Append(@, ret'.usage[1]) ] >>
                   ELSE current_session
            /\ session_history' = session_history
            /\ next_uid' = next_uid ]_vars

\* a step made by a call of end_session: it returned the session or None, and
\* the clock does not move during a call
EndSessionStep ==
    /\ clock' = clock
    /\ ret'.kind \in { "session", "None" }

\* C15: end_session with an open session sets its end time, appends that
\* session to the end of session_history, clears the slot and returns it;
\* with no open session, as right after an end_session, it returns None and
\* leaves session_history unchanged
C15_EndSession ==
    [][ EndSessionStep =>
            IF current_session # <<>>
            THEN /\ ret'.kind = "session"
                 /\ ret'.session =
                        << [ current_session[1] EXCEPT !.end_time = <<clock>> ] >>
                 /\ session_history' = Append(session_history, ret'.session[1])
                 /\ current_session' = <<>>
            ELSE /\ ret'.kind = "None"
                 /\ ret'.session = <<>>
                 /\ session_history' = session_history
                 /\ current_session' = <<>> ]_vars

\* end_session ran twice in a row: one session archived, None returned last
C15_Witness ==
    /\ ret.kind = "None"
    /\ current_session = <<>>
    /\ Len(session_history) = 1
    /\ session_history[1].end_time # <<>>
    /\ ops = 3

\* C16: calculate_cost returns inTok/1000*inputRate + outTok/1000*outputRate
\* with the rates of the identifier's entry for every key of the price table,
\* and with the default rates, without raising, for every other identifier
\* (money in units of 1e-8 USD, rates in 1e-5 USD per 1K tokens)
C16_CostFormula ==
    (fn_out # <<>> /\ fn_call[1].fn = "calculate_cost") =>
        /\ fn_out[1].kind = "returned"
        /\ fn_out[1].value =
               IF fn_call[1].model_name \in DOMAIN MODEL_PRICING
               THEN fn_call[1].input_tokens * MODEL_PRICING[fn_call[1].model_name].input
                        + fn_call[1].output_tokens
                              * MODEL_PRICING[fn_call[1].model_name].output
               ELSE fn_call[1].input_tokens * 100 + fn_call[1].output_tokens * 200

\* a step made by a call of get_daily_summary
DailySummaryStep == ret'.kind = "daily_summary" /\ clock' = clock

\* positions in session_history of the sessions started on the day of `now`
StartedOnDayOf(now) ==
    { i \in 1..Len(session_history) :
        session_history[i].start_time \div SecondsPerDay = now \div SecondsPerDay }

\* the total costs of the archived sessions at the positions `indices`, added up
RECURSIVE CostOfSessions(_)
CostOfSessions(indices) ==
    IF indices = {} THEN 0
    ELSE LET i == CHOOSE j \in indices : TRUE
         IN  total_cost_usd(session_history[i]) + CostOfSessions(indices \ {i})

\* C17: get_daily_summary counts the archived sessions whose start date is
\* today and returns the sum of their total costs; with no such session every
\* field it returns is zero
C17_DailySummary ==
    [][ DailySummaryStep =>
            /\ ret'.summary # <<>>
            /\ ret'.summary[1].total_sessions = Cardinality(StartedOnDayOf(clock))
            /\ ret'.summary[1].total_cost_usd = CostOfSessions(StartedOnDayOf(clock))
            /\ StartedOnDayOf(clock) = {} =>
                   \A f \in DOMAIN ret'.summary[1] : ret'.summary[1][f] = 0 ]_vars

\* a summary over one archived session of today that has a cost
C17_Witness ==
    /\ ret.kind = "daily_summary"
    /\ ret.summary[1].total_sessions = 1
    /\ ret.summary[1].total_cost_usd > 0
    /\ Cardinality(StartedOnDayOf(clock)) = 1

\* a step made by a call of one of the three queries
QueryStep ==
    /\ clock' = clock
    /\ ret'.kind \in { "estimate", "session_summary", "daily_summary" }

\* C18: estimate_research_cost, get_session_summary and get_daily_summary
\* change neither current_session nor session_history nor any record list,
\* and the estimate is a function of the mode name alone
C18_QueriesReadOnly ==
    [][ QueryStep =>
            /\ current_session' = current_session
            /\ session_history' = session_history
            /\ next_uid' = next_uid
            /\ ret'.kind = "estimate" =>
                   ret'.summary = << Estimate(ret'.args[1], 0) >> ]_vars

\* an estimate for a mode name outside the table, asked while a session with
\* records is open and another is archived
C18_Witness ==
    /\ ret.kind = "estimate"
    /\ ret.args[1] \notin DOMAIN estimates
    /\ current_session # <<>>
    /\ current_session[1].model_calls # <<>>
    /\ session_history # <<>>

\* the reasons of what raises inside the call `c` of tavily_search: the
\* provider call, or the assessment of a hit
ReasonsRaised(c) ==
    IF c.provider.kind = "raises" THEN { c.provider.reason }
    ELSE { ItemFailure(c.provider.results[i], c) :
             i \in 1..Len(c.provider.results) } \ { "" }

\* C19: whatever raises while tavily_search runs, the call returns a text
\* that begins "Search failed: " and goes on with the reason; no exception
\* leaves the call
C19_SearchFailureAbsorbed ==
    (fn_out # <<>> /\ fn_call[1].fn = "tavily_search") =>
        /\ fn_out[1].kind = "returned"
        /\ ReasonsRaised(fn_call[1]) # {} =>
               /\ Len(fn_out[1].value.prefix) = 3
               /\ SubSeq(fn_out[1].value.prefix, 1, 2) = <<"Search", "failed:">>
               /\ fn_out[1].value.prefix[3] \in ReasonsRaised(fn_call[1])
               /\ fn_out[1].value.results = <<>>

\* the assessment of the second hit raised after the first hit was assessed
C19_Witness ==
    /\ fn_out # <<>>
    /\ fn_call[1].fn = "tavily_search"
    /\ fn_call[1].provider.kind = "results"
    /\ Len(fn_call[1].provider.results) >= 2
    /\ ItemFailure(fn_call[1].provider.results[1], fn_call[1]) = ""
    /\ ItemFailure(fn_call[1].provider.results[2], fn_call[1]) # ""
    /\ fn_out[1].value.prefix[1] = "Search"

\* C20: the results formatted by one call of tavily_search carry pairwise
\* different URLs, and the result kept for a URL is the first hit the
\* provider sent for it
C20_NoDuplicateUrls ==
    (fn_out # <<>> /\ fn_call[1].fn = "tavily_search" /\ fn_out[1].kind = "returned") =>
        LET formatted == fn_out[1].value.results
            hits == fn_call[1].provider.results
        IN  /\ \A i, j \in 1..Len(formatted) :
                   i # j => formatted[i].url # formatted[j].url
            /\ \A i \in 1..Len(formatted) :
                   \E k \in 1..Len(hits) :
                       /\ ItemUrl(hits[k]) = <<formatted[i].url>>
                       /\ ItemTitle(hits[k]) = <<formatted[i].title>>
                       /\ \A l \in 1..(k - 1) : ItemUrl(hits[l]) # ItemUrl(hits[k])

\* the hits of the call `c`, assessed, in the provider's order
AssessedHits(c) == results_with_quality(c.provider.results, c)

\* the positions of the hits that C21 says are kept: the academic ones when the
\* query is academic and at least 2 hits are academic, every hit otherwise
KeptPositions(all, academic) ==
    LET scholarly == { i \in 1..Len(all) : all[i].quality.is_academic }
    IN  IF academic /\ Cardinality(scholarly) >= 2 THEN scholarly ELSE 1..Len(all)

\* the order C21 says the kept hits are in: by descending score with ties in
\* the provider's order for an academic query, the provider's order otherwise
KeptOrder(all, academic) ==
    LET kept == KeptPositions(all, academic)
        n == Cardinality(kept)
    IN  IF ~ academic THEN [ i \in 1..Len(all) |-> i ]
        ELSE CHOOSE p \in [ 1..n -> kept ] :
                 \A a, b \in 1..n :
                     a < b =>
                         \/ all[p[a]].quality.quality_score
                                > all[p[b]].quality.quality_score
                         \/ /\ all[p[a]].quality.quality_score
                                  = all[p[b]].quality.quality_score
                            /\ p[a] < p[b]

\* the call returned formatted results: nothing raised, the provider sent hits
SearchFormatted ==
    /\ fn_out # <<>>
    /\ fn_call[1].fn = "tavily_search"
    /\ fn_out[1].kind = "returned"
    /\ fn_call[1].provider.kind = "results"
    /\ \A i \in 1..Len(fn_call[1].provider.results) :
           ItemFailure(fn_call[1].provider.results[i], fn_call[1]) = ""

\* C21: for an academic query the results are the academic hits when at least
\* 2 hits are academic and all hits otherwise, by descending quality score
\* with ties in the provider's order; for any other query they are all the
\* hits in the provider's order.  The formatted list is that list up to
\* max_results entries.
C21_AcademicFiltering ==
    SearchFormatted =>
        LET c == fn_call[1]
            all == AssessedHits(c)
            order == KeptOrder(all, is_academic_query(c.query))
            formatted == fn_out[1].value.results
        IN  /\ Len(formatted) =
                   IF c.max_results < Len(order) THEN c.max_results ELSE Len(order)
            /\ \A i \in 1..Len(formatted) :
                   /\ formatted[i].title = all[order[i]].title
                   /\ formatted[i].url = all[order[i]].url
                   /\ formatted[i].content = all[order[i]].content

\* an academic query with three hits, two of them academic with equal scores:
\* the third hit is filtered out and nothing is cut by max_results
C21_Witness ==
    /\ SearchFormatted
    /\ is_academic_query(fn_call[1].query)
    /\ fn_call[1].max_results = 3
    /\ Len(fn_call[1].provider.results) = 3
    /\ Len(fn_out[1].value.results) = 2
    /\ fn_out[1].value.results[1].quality_info[1].quality_score
           = fn_out[1].value.results[2].quality_info[1].quality_score
    /\ fn_out[1].value.results[1].title # fn_out[1].value.results[2].title

\* C22: tavily_search asks the provider for 2 * max_results hits when the
\* query shows academic intent and for max_results hits otherwise, and the
\* text it returns holds at most max_results results, numbered 1, 2, ...
C22_SearchResultBound ==
    (fn_out # <<>> /\ fn_call[1].fn = "tavily_search") =>
        /\ fn_out[1].request.max_results =
               IF is_academic_query(fn_call[1].query)
               THEN 2 * fn_call[1].max_results ELSE fn_call[1].max_results
        /\ Len(fn_out[1].value.results) <= fn_call[1].max_results
        /\ \A i \in 1..Len(fn_out[1].value.results) :
               fn_out[1].value.results[i].number = i

\* an academic query with max_results 1: two hits asked for and sent, one kept
C22_Witness ==
    /\ SearchFormatted
    /\ is_academic_query(fn_call[1].query)
    /\ fn_call[1].max_results = 1
    /\ fn_out[1].request.max_results = 2
    /\ Len(fn_call[1].provider.results) = 2
    /\ Len(fn_out[1].value.results) = 1

\* C23: assess_source_quality returns an integer score from 0 to 10, is_academic
\* is true exactly when that score is at least 5, and a second call with the
\* same arguments returns the same assessment
C23_QualityScoreBounds ==
    (fn_out # <<>> /\ fn_call[1].fn = "assess_source_quality") =>
        /\ \A k \in 1..Len(fn_out) :
               /\ fn_out[k].kind = "returned"
               /\ fn_out[k].value.quality_score \in 0..10
               /\ fn_out[k].value.is_academic = (fn_out[k].value.quality_score >= 5)
        /\ \A k, l \in 1..Len(fn_out) : fn_out[k] = fn_out[l]

\* two calls on a source whose indicators add up to more than 10
C23_Witness ==
    /\ Len(fn_out) = 2
    /\ fn_call[1].fn = "assess_source_quality"
    /\ fn_out[2].value.quality_score = 10
    /\ Len(fn_out[2].value.quality_indicators) > 10

\* the score assess_source_quality would return for the call `c` if the
\* enumeration of the domain table met the entry at position i first
ScoreStartingFrom(c, i) ==
    LET raw == high_quality_domains[i].score
                   + Sum([ k \in 1..Len(quality_patterns) |->
                             IF Contains(lower(c.content \o c.title),
                                    quality_patterns[k].pattern)
                             THEN quality_patterns[k].score ELSE 0 ])
                   + (IF lower(c.url)[Len(c.url)] = ".pdf" THEN 1 ELSE 0)
    IN  IF raw < 10 THEN raw ELSE 10

\* C24: a URL that contains "nature.com" is scored 10 whatever else it
\* contains, and the score of a URL that matches several domains of the table
\* is the same whichever of them the enumeration meets first
C24_DomainOrderIndependent ==
    (fn_out # <<>> /\ fn_call[1].fn = "assess_source_quality") =>
        /\ Contains(lower(fn_call[1].url), <<"nature.com">>) =>
               fn_out[1].value.quality_score = 10
        /\ \A i \in 1..Len(high_quality_domains) :
               Contains(lower(fn_call[1].url), <<high_quality_domains[i].domain>>) =>
                   fn_out[1].value.quality_score = ScoreStartingFrom(fn_call[1], i)

\* the results of all the batches, in batch order then in-batch order
RECURSIVE Flattened(_)
Flattened(search_results) ==
    IF search_results = <<>> THEN <<>>
    ELSE Head(search_results).results \o Flattened(Tail(search_results))

\* two dictionaries hold the same items
SameMap(d, e) ==
    { d[i] : i \in 1..Len(d) } = { e[i] : i \in 1..Len(e) }

\* C25: deduplicate_search_results returns one entry per distinct URL of the
\* batches, whose value is the first result with that URL in batch order then
\* in-batch order; a second application to the same batches, and an
\* application to one batch made of the values of its output, give the same map
C25_DeduplicateFirstSeen ==
    (fn_out # <<>> /\ fn_call[1].fn = "deduplicate_search_results") =>
        LET all == Flattened(fn_call[1].search_results)
            map == fn_out[1].value
        IN  /\ \A i, j \in 1..Len(map) : i # j => map[i].key # map[j].key
            /\ { map[i].key : i \in 1..Len(map) } = { all[k].url : k \in 1..Len(all) }
            /\ \A i \in 1..Len(map) :
                   \E k \in 1..Len(all) :
                       /\ all[k].url = map[i].key
                       /\ all[k] = map[i].value
                       /\ \A l \in 1..(k - 1) : all[l].url # map[i].key
            /\ \A n \in 2..Len(fn_out) : SameMap(fn_out[n].value, map)

\* two batches sent the same URL with different results, and all three
\* applications were made
C25_Witness ==
    /\ Len(fn_out) = 3
    /\ fn_call[1].fn = "deduplicate_search_results"
    /\ Len(fn_call[1].search_results) = 2
    /\ Len(fn_out[1].value) = 2
    /\ \E k, l \in 1..Len(Flattened(fn_call[1].search_results)) :
           /\ k < l
           /\ Flattened(fn_call[1].search_results)[k].url
                  = Flattened(fn_call[1].search_results)[l].url
           /\ Flattened(fn_call[1].search_results)[k]
                  # Flattened(fn_call[1].search_results)[l]

TwoSections(value) ==
    /\ Len(value) >= 4
    /\ value[1] = "<summary>"
    /\ \E i, j \in 2..(Len(value) - 1) :
           /\ i < j
           /\ value[i] = "</summary>"
           /\ value[j] = "<key_excerpts>"
    /\ value[Len(value)] = "</key_excerpts>"

\* C27: every value returned by summarize_webpage_content, whether the model
\* answered or raised, has the form <summary>...</summary> followed by
\* <key_excerpts>...</key_excerpts>
C27_SummaryEnvelope ==
    (fn_out # <<>> /\ fn_call[1].fn = "summarize_webpage_content") =>
        TwoSections(fn_out[1].value)

\* the call is one of a scoped wrapper whose scoping response has no research
\* brief and is classified as a clarifying question
ClarifyingCall ==
    /\ fn_call[1].fn \in ScopedWrappers
    /\ fn_call[1].scope.kind = "result"
    /\ fn_call[1].scope.has_messages
    /\ fn_call[1].scope.research_brief \in { <<>>, << <<>> >> }
    /\ LooksLikeQuestion(fn_call[1].scope.ai_response)

ResearchInvoked == \E i \in 1..Len(fn_out) : fn_out[i].kind = "research"

WrapperDone == Len(fn_out) >= 2 /\ fn_out[Len(fn_out)].kind # "research"

\* C28: in every scoped wrapper, when scoping classifies the response as a
\* clarifying question, the research function is never invoked in that call
\* and what the wrapper returns is the clarification-needed text
C28_ClarificationShortCircuit ==
    [](ClarifyingCall =>
           [](/\ ~ResearchInvoked
              /\ WrapperDone =>
                     /\ fn_out[Len(fn_out)].kind = "returned"
                     /\ Contains(fn_out[Len(fn_out)].value, <<"Clarification", "Needed">>)
                     /\ Contains(fn_out[Len(fn_out)].value, fn_call[1].scope.ai_response)))

\* a wrapper returned on "Could you specify a time period?"
C28_Witness ==
    /\ ClarifyingCall
    /\ fn_call[1].scope.ai_response = <<"Could", "you", "specify", "a", "time", "period", "?">>
    /\ WrapperDone
    /\ fn_out[Len(fn_out)].kind = "returned"

\* the call is one of a scoped wrapper whose scoping response carries a
\* research brief
BriefCall ==
    /\ fn_call[1].fn \in ScopedWrappers
    /\ fn_call[1].scope.kind = "result"
    /\ fn_call[1].scope.has_messages
    /\ fn_call[1].scope.research_brief \notin { <<>>, << <<>> >> }

\* C29: in every scoped wrapper, when scoping asked for no clarification and
\* produced a research brief, the research function is invoked with the text
\* of the brief as its query
C29_BriefHandOff ==
    (BriefCall /\ Len(fn_out) >= 2 /\ fn_out[2].kind = "research") =>
        fn_out[2].value.query = fn_call[1].scope.research_brief[1]

\* the header of the text run_scoping_research returned
ReturnedOutcome(scoping_result) ==
    IF Len(scoping_result) < 4 THEN "none"
    ELSE IF SubSeq(scoping_result, 1, 4) = <<"##", "Research", "Brief", "Generated">>
    THEN "brief"
    ELSE IF SubSeq(scoping_result, 1, 3) = <<"##", "Clarification", "Needed">>
    THEN "clarification"
    ELSE IF SubSeq(scoping_result, 1, 3) = <<"##", "Scoping", "Complete">>
    THEN "proceed"
    ELSE "none"

\* the outcome the priority gives: brief, else clarifying question, else
\* proceed
ExpectedOutcome(scope) ==
    IF scope.research_brief \notin { <<>>, << <<>> >> } THEN "brief"
    ELSE IF \E indicator \in ClarificationIndicators :
                Contains(lower(scope.ai_response), indicator)
    THEN "clarification"
    ELSE "proceed"

\* C30: for every scoping response run_scoping_research yields the one outcome
\* the priority brief, clarification, proceed gives, and a scoped wrapper goes
\* on to the research function exactly when that outcome is not clarification
C30_ScopingClassification ==
    (/\ fn_out # <<>>
     /\ fn_call[1].fn \in ScopedWrappers
     /\ fn_call[1].scope.kind = "result"
     /\ fn_call[1].scope.has_messages) =>
        /\ ReturnedOutcome(fn_out[1].value) = ExpectedOutcome(fn_call[1].scope)
        /\ Len(fn_out) >= 2 =>
               (ResearchInvoked <=> ExpectedOutcome(fn_call[1].scope) # "clarification")

\* C31: a record of a search call is appended to the open session only by a
\* step in which the provider's call has completed, never for a call that
\* raised, and the records already in the session keep their fields and their
\* places
C31_RecordAfterCompletion ==
    [][ (/\ current_session # <<>>
         /\ current_session' # <<>>
         /\ fn_call[1].fn = "tavily_search"
         /\ current_session'[1].model_calls # current_session[1].model_calls)
        => /\ fn_call[1].provider.kind # "raises"
           /\ Len(current_session'[1].model_calls) > Len(current_session[1].model_calls)
           /\ SubSeq(current_session'[1].model_calls, 1,
                     Len(current_session[1].model_calls))
                  = current_session[1].model_calls ]_vars

\* C32: the tool client is absent until its first use, is made once and every
\* later get_enhanced_mcp_client gives the same client with the servers
\* chosen at first use, and the tool set is fetched at most once in one run
\* of the loop
C32_ToolDiscoveryOnce ==
    [][ /\ (model_invocations = 0 /\ pc # "enhanced_researcher_agent") => enhanced_client' = <<>>
        /\ enhanced_client # <<>> => enhanced_client' = enhanced_client
        /\ tool_fetches' <= 1 ]_vars

\* the turns a step added at the end of the transcript
AddedTurns ==
    SubSeq(researcher_messages', Len(researcher_messages) + 1, Len(researcher_messages'))

\* C33: within one run of the loop every step keeps the turns of the
\* transcript as they are and where they are; the agent node adds at the end
\* one assistant turn followed by its tool-result turns, and the compression
\* node adds nothing
C33_TranscriptAppendOnly ==
    [][ /\ IsPrefix(researcher_messages, researcher_messages')
        /\ (pc = "enhanced_researcher_agent" /\ researcher_messages' # researcher_messages) =>
               /\ AddedTurns[1].type = "ai"
               /\ Len(AddedTurns) = 1 + Len(AddedTurns[1].tool_calls)
               /\ \A i \in 2..Len(AddedTurns) :
                      /\ AddedTurns[i].type = "tool"
                      /\ AddedTurns[i].tool_call_id = AddedTurns[1].tool_calls[i - 1].id
        /\ pc = "enhanced_compress_research" => researcher_messages' = researcher_messages
      ]_vars

\* a run that added an assistant turn with two tool results, a second
\* assistant turn, and was then compressed
C33_Witness ==
    /\ compress_invocations = 1
    /\ Len(researcher_messages) >= 5
    /\ researcher_messages[2].type = "ai"
    /\ Len(researcher_messages[2].tool_calls) = 2
    /\ researcher_messages[3].type = "tool"
    /\ researcher_messages[4].type = "tool"
    /\ researcher_messages[5].type = "ai"

\* C34: whenever the model's reply to chat() holds a completion indicator,
\* chat returns is_complete true with a research brief that is not None and
\* the chatbot is ready for research
C34_ChatCompletion ==
    (/\ fn_call # <<>>
     /\ fn_call[1].fn = "chat"
     /\ fn_call[1].reply.kind = "ok"
     /\ \E indicator \in completion_indicators :
            Contains(lower(fn_call[1].reply.content), indicator)) =>
        /\ fn_out[1].value.is_complete
        /\ fn_out[1].value.research_brief # <<>>
        /\ chatbot.is_ready_for_research

\* the history has even length and its entries are user, assistant, user, ...
Alternates(history) ==
    /\ Len(history) % 2 = 0
    /\ \A i \in 1..Len(history) :
           history[i].role = IF i % 2 = 1 THEN "user" ELSE "assistant"

C35_ModelInvocationBound ==
    /\ [](model_invocations <= 9)
    /\ [](AlwaysRequestsTool => model_invocations <= 5)
    /\ [][ Len(researcher_messages) >= 10 => model_invocations' = model_invocations ]_vars

\* the model was invoked 9 times, each response one message, and the loop
\* was left at 10 messages
C35_Witness ==
    /\ model_invocations = 9
    /\ Len(researcher_messages) = 10
    /\ AfterLoop

\* a step made by a call of track_model_call or track_tavily_search that
\* returned its record
TrackingStep == clock' = clock /\ ret'.kind = "usage"

\* C36: get_daily_summary counts archived sessions only, so the records of a
\* session that is open contribute nothing to it; a session enters the
\* archive by end_session alone, and a record tracked while no session is
\* open is stored in no session
C36_OpenSessionNotCounted ==
    [][ /\ DailySummaryStep =>
               /\ ret'.summary[1].total_sessions = Cardinality(StartedOnDayOf(clock))
               /\ ret'.summary[1].total_cost_usd = CostOfSessions(StartedOnDayOf(clock))
               /\ StartedOnDayOf(clock) # {} =>
                      ret'.summary[1].total_input_tokens
                          = Sum([ i \in 1..Len(session_history) |->
                                    IF i \in StartedOnDayOf(clock)
                                    THEN total_input_tokens(session_history[i]) ELSE 0 ])
        /\ TrackingStep =>
               /\ session_history' = session_history
               /\ current_session = <<>> => current_session' = <<>>
        /\ session_history' # session_history =>
               /\ ret'.kind = "session"
               /\ current_session # <<>>
               /\ session_history' = Append(session_history,
                      [current_session[1] EXCEPT !.end_time = <<clock>>]) ]_vars

\* the daily summary was asked while a session with a record is open and
\* one session of today is archived
C36_Witness ==
    /\ ret.kind = "daily_summary"
    /\ ret.summary[1].total_sessions = 1
    /\ Cardinality(StartedOnDayOf(clock)) = 1
    /\ current_session # <<>>
    /\ current_session[1].model_calls # <<>>
    /\ date(current_session[1].start_time) = date(clock)
    /\ total_cost_usd(current_session[1]) > 0

\* the sessions start_session has opened that the ledger still holds
HeldSessions ==
    { session_history[i] : i \in 1..Len(session_history) }
        \cup { current_session[i] : i \in 1..Len(current_session) }

\* C37: any two distinct sessions opened by start_session on the same ledger
\* have different session ids
C37_SessionIdsUnique ==
    \A s, t \in HeldSessions : s.uid # t.uid => s.session_id # t.session_id

\* the call is one of a scoped wrapper whose scoping workflow raises or
\* returns no messages
FailedScopingCall ==
    /\ fn_call # <<>>
    /\ fn_call[1].fn \in ScopedWrappers
    /\ \/ fn_call[1].scope.kind = "raises"
       \/ fn_call[1].scope.kind = "result" /\ ~fn_call[1].scope.has_messages

====
